---------------------------- MODULE Spec2Model ----------------------------
(***************************************************************************)
(* A model of the IC-JPEG codec library (libimage): fixed-point block      *)
(* transforms, quantizer, block extraction / reconstruction, colour        *)
(* conversion and the jpeg_compress / jpeg_decompress pipeline.            *)
(*                                                                         *)
(* C arrays are modelled as functions over 0..n-1 so that the indices of   *)
(* the source are kept.  int32_t values are TLC integers; int64_t values   *)
(* are "wide" values (sign and five base-2^14 limbs) because the model     *)
(* checker's integers are 32 bits wide.                                    *)
(***************************************************************************)
EXTENDS Integers, Sequences, FiniteSets, TLC

(***************************************************************************)
(* 64-bit arithmetic.  A wide value is [s |-> 1 or -1, m |-> <<m1..m5>>]   *)
(* standing for s * (m1 + m2*K + m3*K^2 + m4*K^3 + m5*K^4), every limb in  *)
(* 0..K-1, and zero always carried with s = 1.                             *)
(***************************************************************************)
K == 2 ^ 14

\* Carry propagation from limb i on, with carry c coming in: the limbs
\* i..5 followed by the carry out (floor carries, so that signed limbs are
\* accepted).
RECURSIVE WCarry(_, _, _)
WCarry(r, i, c) ==
    IF i > 5 THEN <<c>>
    ELSE <<(r[i] + c) % K>> \o WCarry(r, i + 1, (r[i] + c) \div K)

\* Five signed limbs normalised: p[1..5] the limbs, p[6] the carry out.
WNormRaw(r) == WCarry(r, 1, 0)

WPick(p, r) ==
    IF p[6] >= 0
    THEN [s |-> 1, m |-> SubSeq(p, 1, 5)]
    ELSE [s |-> -1,
          m |-> SubSeq(WNormRaw(<<-r[1], -r[2], -r[3], -r[4], -r[5]>>), 1, 5)]

\* The wide value of a vector of five signed limbs.
WFromRaw(r) == WPick(WNormRaw(r), r)

\* (int64_t)x for an int32_t x.
W(x) ==
    IF x < 0
    THEN [s |-> -1, m |-> <<(-x) % K, ((-x) \div K) % K, (-x) \div (K * K), 0, 0>>]
    ELSE [s |-> 1, m |-> <<x % K, (x \div K) % K, x \div (K * K), 0, 0>>]

\* Sign and magnitude put together, zero carried with s = 1.
WSign(s, m) ==
    IF m = <<0, 0, 0, 0, 0>> THEN [s |-> 1, m |-> m] ELSE [s |-> s, m |-> m]

WAdd(x, y) ==
    WFromRaw(<<x.s * x.m[1] + y.s * y.m[1], x.s * x.m[2] + y.s * y.m[2],
               x.s * x.m[3] + y.s * y.m[3], x.s * x.m[4] + y.s * y.m[4],
               x.s * x.m[5] + y.s * y.m[5]>>)

WNeg(x) == WSign(-x.s, x.m)

WSub(x, y) == WAdd(x, WNeg(y))

\* The low five limbs of the product of two magnitudes, not yet normalised.
WConv(a, b) ==
    <<a[1] * b[1],
      a[1] * b[2] + a[2] * b[1],
      a[1] * b[3] + a[2] * b[2] + a[3] * b[1],
      a[1] * b[4] + a[2] * b[3] + a[3] * b[2] + a[4] * b[1],
      a[1] * b[5] + a[2] * b[4] + a[3] * b[3] + a[4] * b[2] + a[5] * b[1]>>

WMul(x, y) == WSign(x.s * y.s, SubSeq(WNormRaw(WConv(x.m, y.m)), 1, 5))

WIsNeg(x) == x.s = -1

\* Number of low limbs of a magnitude that are zero (the magnitude is not 0).
WLowZeros(m) ==
    IF m[1] # 0 THEN 0
    ELSE IF m[2] # 0 THEN 1
    ELSE IF m[3] # 0 THEN 2
    ELSE IF m[4] # 0 THEN 3
    ELSE 4

WShiftDown(m, j) ==
    <<m[1 + j],
      IF j <= 3 THEN m[2 + j] ELSE 0,
      IF j <= 2 THEN m[3 + j] ELSE 0,
      IF j <= 1 THEN m[4 + j] ELSE 0,
      IF j = 0 THEN m[5] ELSE 0>>

\* The i-th 7-bit digit of a magnitude, i in 1..10, least significant first.
WDigit(m, i) ==
    IF i % 2 = 0 THEN m[i \div 2] \div 128 ELSE m[(i + 1) \div 2] % 128

\* Long division by a native divisor 0 < d <= 2^24 from digit i down, with
\* remainder r carried in: the quotient digits, most significant first.
RECURSIVE WLongDiv(_, _, _, _)
WLongDiv(m, d, i, r) ==
    IF i = 0 THEN <<>>
    ELSE <<(r * 128 + WDigit(m, i)) \div d>>
         \o WLongDiv(m, d, i - 1, (r * 128 + WDigit(m, i)) % d)

WJoin(qs) ==
    <<qs[9] * 128 + qs[10], qs[7] * 128 + qs[8], qs[5] * 128 + qs[6],
      qs[3] * 128 + qs[4], qs[1] * 128 + qs[2]>>

\* Magnitude divided by a native divisor 0 < d <= 2^24.
WDivMagSmall(m, d) == WJoin(WLongDiv(m, d, 10, 0))

WDivBy(x, ym) == WSign(x.s, WDivMagSmall(x.m, ym[1] + K * ym[2]))

\* C's x / y on int64_t (truncation toward zero) for a positive divisor y
\* of the form d * K^j with d <= 2^24: every divisor the library uses.
WDiv(x, y) ==
    WDivBy([s |-> x.s, m |-> WShiftDown(x.m, WLowZeros(y.m))],
           WShiftDown(y.m, WLowZeros(y.m)))

\* (int32_t)x: the low 32 bits of the two's complement of x.
WLow32(low28, top4) ==
    IF top4 < 8 THEN top4 * 268435456 + low28
    ELSE (top4 - 16) * 268435456 + low28

WWrap(s, u) ==
    IF s = 1 THEN u
    ELSE IF u = (-2147483647) - 1 THEN u
    ELSE -u

WToInt32(x) == WWrap(x.s, WLow32(x.m[1] + K * x.m[2], x.m[3] % 16))


(***************************************************************************)
(* Fixed-point constants (internal.h) and arrays.                          *)
(***************************************************************************)
SCALE_CONST == 1048576
C1 == 1028428
S1 == 204567
C3 == 871859
S3 == 582558
C6 == 401273
S6 == 968758
SQRT_2 == 1482910

\* The model checker evaluates a function constructor anew at every
\* application; Eager(f) is f held as a table, each element computed once.
Eager(f) == f @@ <<>>

\* The one element of a singleton.  A C local variable that is assigned once
\* is a bound variable x ranging over the singleton of its initialiser e,
\* Only({body : x \in {e}}): e is computed once, before the body.
Only(S) == CHOOSE x \in S : TRUE

\* A C array initialiser as a function over 0..n-1.
Arr(seq) == Eager([i \in 0..(Len(seq) - 1) |-> seq[i + 1]])

Idx64 == 0..63

\* C's a / b for int operands, b > 0: truncation toward zero.
c_div(a, b) == IF a >= 0 THEN a \div b ELSE -((-a) \div b)

(***************************************************************************)
(* dct_loeffler.c: forward transform of the fast (Loeffler) method.        *)
(***************************************************************************)
\* static inline int64_t div_round(int64_t num, int64_t den)
loeffler_div_round(num, den) ==
    IF ~WIsNeg(num)
    THEN WDiv(WAdd(num, WDiv(den, W(2))), den)
    ELSE WDiv(WSub(num, WDiv(den, W(2))), den)

\* a*x + b*y + c*z + d*w on int64_t, for int constants a..d.
LfDot4(a, x, b, y, c, z, d, w) ==
    WAdd(WAdd(WAdd(WMul(W(a), W(x)), WMul(W(b), W(y))), WMul(W(c), W(z))),
         WMul(W(d), W(w)))

\* a*x + b*y on int64_t.
LfDot2(a, x, b, y) == WAdd(WMul(W(a), W(x)), WMul(W(b), W(y)))

\* One output of a butterfly: (int32_t)div_round(num, den).
LfOut(num, den) == WToInt32(loeffler_div_round(num, den))

\* dct_1d_stride(src, stride, dst): v is the vector src[0], src[stride], ...,
\* src[7*stride]; the result is dst[0..7].  The butterfly sums are int64_t
\* sums of a few samples and are kept as plain integers; every product and
\* every sum of products is 64 bits wide.
loeffler_dct_1d_stride(v) ==
    LET s07 == v[0] + v[7]
        d07 == v[0] - v[7]
        s16 == v[1] + v[6]
        d16 == v[1] - v[6]
        s25 == v[2] + v[5]
        d25 == v[2] - v[5]
        s34 == v[3] + v[4]
        d34 == v[3] - v[4]
        e0 == s07 + s34
        e3 == s07 - s34
        e1 == s16 + s25
        e2 == s16 - s25
        o0 == d07 + d34
        o1 == d16 + d25
        o2 == d16 - d25
        o3 == d07 - d34
        den2 == WMul(W(SQRT_2), W(2))
        den1 == WMul(W(SCALE_CONST), W(2))
    IN  Arr(<< LfOut(WMul(W(e0 + e1), W(SCALE_CONST)), den2),
               LfOut(LfDot4(C3, o0, C1, o1, S1, o2, S3, o3), den2),
               LfOut(LfDot2(C6, e2, S6, e3), den1),
               LfOut(LfDot4(S1, o0, -C3, o1, S3, o2, C1, o3), den2),
               LfOut(WMul(W(e0 - e1), W(SCALE_CONST)), den2),
               LfOut(LfDot4(C1, o0, -S3, o1, -C3, o2, -S1, o3), den2),
               LfOut(LfDot2(-S6, e2, C6, e3), den1),
               LfOut(LfDot4(-S3, o0, S1, o1, -C1, o2, C3, o3), den2) >>)

\* The 2D structure shared by the forward transforms: rows into temp, columns
\* of temp into out (column x stored as row x), then the in-place transpose.
Row8(a, y) == Eager([i \in 0..7 |-> a[y * 8 + i]])
Col8(a, x) == Eager([i \in 0..7 |-> a[x + i * 8]])

Transpose8(a) == Eager([i \in Idx64 |-> a[(i % 8) * 8 + (i \div 8)]])

\* Eight 8-vectors laid out one after the other.
Rows64(r) == Eager([i \in Idx64 |-> r[i \div 8][i % 8]])

\* Eight 8-vectors stored with stride 8: vector x at x, x + 8, ..., x + 56.
Cols64(c) == Eager([i \in Idx64 |-> c[i % 8][i \div 8]])

dct_loeffler_2d(in) ==
    Only({Transpose8(Rows64(Eager([x \in 0..7 |-> loeffler_dct_1d_stride(Col8(temp, x))]))) :
            temp \in {Rows64(Eager([y \in 0..7 |-> loeffler_dct_1d_stride(Row8(in, y))]))}})

(***************************************************************************)
(* dct_matrix.c, the 2^20-scale file: forward reference transform.         *)
(***************************************************************************)
SCALE == 1048576
NORM_0 == 370728
NORM_K == 524288
SCALE_SQ == WMul(W(SCALE), W(SCALE))

\* static inline int32_t div_round(int64_t num, int64_t den)
matrix_div_round(num, den) ==
    IF ~WIsNeg(num)
    THEN WToInt32(WDiv(WAdd(num, WDiv(den, W(2))), den))
    ELSE WToInt32(WDiv(WSub(num, WDiv(den, W(2))), den))

C == Arr(<<
    Arr(<<1048576,  1048576,  1048576,  1048576,  1048576,  1048576,  1048576,  1048576>>),
    Arr(<<1028428,   871859,   582558,   204567,  -204567,  -582558,  -871859, -1028428>>),
    Arr(<< 968758,   401273,  -401273,  -968758,  -968758,  -401273,   401273,   968758>>),
    Arr(<< 871859,  -204567, -1028428,  -582558,   582558,  1028428,   204567,  -871859>>),
    Arr(<< 741455,  -741455,  -741455,   741455,   741455,  -741455,  -741455,   741455>>),
    Arr(<< 582558, -1028428,   204567,   871859,  -871859,  -204567,  1028428,  -582558>>),
    Arr(<< 401273,  -968758,   968758,  -401273,  -401273,   968758,  -968758,   401273>>),
    Arr(<< 204567,  -582558,   871859, -1028428,  1028428,  -871859,   582558,  -204567>>) >>)

NORM == Arr(<<NORM_0, NORM_K, NORM_K, NORM_K, NORM_K, NORM_K, NORM_K, NORM_K>>)

\* (int64_t)v[0]*c[0] + ... + (int64_t)v[j]*c[j], summed left to right.
RECURSIVE MxDot(_, _, _)
MxDot(v, c, j) ==
    IF j = 0 THEN WMul(W(v[0]), W(c[0]))
    ELSE WAdd(MxDot(v, c, j - 1), WMul(W(v[j]), W(c[j])))

\* sum = (int64_t)v[0]*c[0] + ... + (int64_t)v[7]*c[7]
MxDot8(v, c) == MxDot(v, c, 7)

matrix_dct_1d_stride(v) ==
    Eager([k \in 0..7 |->
        matrix_div_round(WMul(MxDot8(v, C[k]), W(NORM[k])), SCALE_SQ)])

dct_matrix_2d(in) ==
    Only({Transpose8(Rows64(Eager([x \in 0..7 |-> matrix_dct_1d_stride(Col8(temp, x))]))) :
            temp \in {Rows64(Eager([y \in 0..7 |-> matrix_dct_1d_stride(Row8(in, y))]))}})

(***************************************************************************)
(* dct_matrix.c of libimage/src, the 2048-scale file: the same code as the *)
(* 2^20-scale file with other values of SCALE, NORM_0, NORM_K and C.       *)
(***************************************************************************)
SCALE_2048 == 2048
NORM_0_2048 == 724
NORM_K_2048 == 1024
SCALE_SQ_2048 == WMul(W(SCALE_2048), W(SCALE_2048))

C_2048 == Arr(<<
    Arr(<< 2048,  2048,  2048,  2048,  2048,  2048,  2048,  2048>>),
    Arr(<< 2009,  1703,  1138,   400,  -400, -1138, -1703, -2009>>),
    Arr(<< 1892,   784,  -784, -1892, -1892,  -784,   784,  1892>>),
    Arr(<< 1703,  -400, -2009, -1138,  1138,  2009,   400, -1703>>),
    Arr(<< 1448, -1448, -1448,  1448,  1448, -1448, -1448,  1448>>),
    Arr(<< 1138, -2009,   400,  1703, -1703,  -400,  2009, -1138>>),
    Arr(<<  784, -1892,  1892,  -784,  -784,  1892, -1892,   784>>),
    Arr(<<  400, -1138,  1703, -2009,  2009, -1703,  1138,  -400>>) >>)

NORM_2048 == Arr(<<NORM_0_2048, NORM_K_2048, NORM_K_2048, NORM_K_2048,
                   NORM_K_2048, NORM_K_2048, NORM_K_2048, NORM_K_2048>>)

\* static void dct_1d_stride(const int32_t *src, int stride, int32_t *dst)
dct_1d_stride_2048(v) ==
    Eager([k \in 0..7 |->
        matrix_div_round(WMul(MxDot8(v, C_2048[k]), W(NORM_2048[k])),
                         SCALE_SQ_2048)])

\* void dct_matrix_2d(const int32_t *in, int32_t *out)
dct_matrix_2d_2048(in) ==
    Only({Transpose8(Rows64(Eager([x \in 0..7 |-> dct_1d_stride_2048(Col8(temp, x))]))) :
            temp \in {Rows64(Eager([y \in 0..7 |-> dct_1d_stride_2048(Row8(in, y))]))}})

(***************************************************************************)
(* Inverse transforms.  The 2D structure they share: the inverse of every  *)
(* column x is stored to temp + x with stride 8, then every row of temp is *)
(* inverted into out.                                                      *)
(***************************************************************************)
\* The even part of dct_loeffler.c idct_1d_stride:
\* <<s07_4s, s16_4s, s25_4s, s34_4s>>.
LfEven(src) ==
    LET t0_s  == WMul(W(src[0] * 2), W(SQRT_2))
        t4_s  == WMul(W(src[4] * 2), W(SQRT_2))
        e0_2s == WAdd(t0_s, t4_s)
        e1_2s == WSub(t0_s, t4_s)
        e2_2s == WMul(W(2), LfDot2(C6, src[2] * 2, -S6, src[6] * 2))
        e3_2s == WMul(W(2), LfDot2(S6, src[2] * 2, C6, src[6] * 2))
    IN  << WAdd(e0_2s, e3_2s), WAdd(e1_2s, e2_2s),
           WSub(e1_2s, e2_2s), WSub(e0_2s, e3_2s) >>

\* n0..n3 of the odd part, for Z1, Z3, Z5, Z7.
LfOddSums(Z1, Z3, Z5, Z7) ==
    << LfDot4(C3, Z1, S1, Z3, C1, Z5, -S3, Z7),
       LfDot4(C1, Z1, -C3, Z3, -S3, Z5, S1, Z7),
       LfDot4(S1, Z1, S3, Z3, -C3, Z5, -C1, Z7),
       LfDot4(S3, Z1, C1, Z3, -S1, Z5, C3, Z7) >>

\* div_round(2 * (int64_t)LF_SCALE * n, LF_SQRT2)
LfOddOut(n) ==
    loeffler_div_round(WMul(WMul(W(2), W(SCALE_CONST)), n), W(SQRT_2))

\* The odd part: <<d07_4s, d16_4s, d25_4s, d34_4s>> from n = <<n0..n3>>.
LfOdd(n) ==
    << LfOddOut(WAdd(n[1], n[4])), LfOddOut(WAdd(n[2], n[3])),
       LfOddOut(WSub(n[2], n[3])), LfOddOut(WSub(n[1], n[4])) >>

\* The final butterfly over s = <<s07, s16, s25, s34>> and d likewise.
LfFinal(s, d, final_div) ==
    Arr(<< LfOut(WAdd(s[1], d[1]), final_div),
           LfOut(WAdd(s[2], d[2]), final_div),
           LfOut(WAdd(s[3], d[3]), final_div),
           LfOut(WAdd(s[4], d[4]), final_div),
           LfOut(WSub(s[4], d[4]), final_div),
           LfOut(WSub(s[3], d[3]), final_div),
           LfOut(WSub(s[2], d[2]), final_div),
           LfOut(WSub(s[1], d[1]), final_div) >>)

\* dct_loeffler.c idct_1d_stride(src, dst, stride): src[0..7] contiguous, the
\* result is dst[0], dst[stride], ..., dst[7*stride].
loeffler_idct_1d_stride(src) ==
    LfFinal(LfEven(src),
            LfOdd(LfOddSums(src[1] * 2, src[3] * 2, src[5] * 2, src[7] * 2)),
            WMul(W(8), W(SCALE_CONST)))

idct_loeffler_2d(in) ==
    Only({Rows64(Eager([y \in 0..7 |-> loeffler_idct_1d_stride(Row8(temp, y))])) :
            temp \in {Cols64(Eager([x \in 0..7 |-> loeffler_idct_1d_stride(Col8(in, x))]))}})

\* (int64_t)src[0]*NORM[0]*C[0][n] + ... + (int64_t)src[j]*NORM[j]*C[j][n]
RECURSIVE MxIDot(_, _, _)
MxIDot(src, n, j) ==
    IF j = 0 THEN WMul(WMul(W(src[0]), W(NORM[0])), W(C[0][n]))
    ELSE WAdd(MxIDot(src, n, j - 1),
              WMul(WMul(W(src[j]), W(NORM[j])), W(C[j][n])))

MxIDot8(src, n) == MxIDot(src, n, 7)

matrix_idct_1d_stride(src) ==
    Eager([n \in 0..7 |-> matrix_div_round(MxIDot8(src, n), SCALE_SQ)])

idct_matrix_2d(in) ==
    Only({Rows64(Eager([y \in 0..7 |-> matrix_idct_1d_stride(Row8(temp, y))])) :
            temp \in {Cols64(Eager([x \in 0..7 |-> matrix_idct_1d_stride(Col8(in, x))]))}})

(***************************************************************************)
(* dct_approx.c: the multiplierless approximate transform.                 *)
(***************************************************************************)
approx_dct_1d_stride(x) ==
    Arr(<< x[0] + x[1] + x[2] + x[3] + x[4] + x[5] + x[6] + x[7],
           x[0] + x[1] + x[2] - x[5] - x[6] - x[7],
           x[0] - x[3] - x[4] + x[7],
           x[0] - x[2] - x[3] + x[4] + x[5] - x[7],
           x[0] - x[1] - x[2] + x[3] + x[4] - x[5] - x[6] + x[7],
           x[0] - x[1] + x[3] - x[4] + x[6] - x[7],
           (-x[1]) + x[2] + x[5] - x[6],
           (-x[1]) + x[2] - x[3] + x[4] - x[5] + x[6] >>)

approx_idct_1d_stride(src) ==
    LET a0 == src[0] * 3
        a1 == src[1] * 4
        a2 == src[2] * 6
        a3 == src[3] * 4
        a4 == src[4] * 3
        a5 == src[5] * 4
        a6 == src[6] * 6
        a7 == src[7] * 4
    IN  Arr(<< c_div(a0 + a1 + a2 + a3 + a4 + a5 + 12, 24),
               c_div(a0 + a1 - a4 - a5 - a6 - a7 + 12, 24),
               c_div(a0 + a1 - a3 - a4 + a6 + a7 + 12, 24),
               c_div(a0 - a2 - a3 + a4 + a5 - a7 + 12, 24),
               c_div(a0 - a2 + a3 + a4 - a5 + a7 + 12, 24),
               c_div(a0 - a1 + a3 - a4 + a6 - a7 + 12, 24),
               c_div(a0 - a1 - a4 + a5 - a6 + a7 + 12, 24),
               c_div(a0 - a1 + a2 - a3 + a4 - a5 + 12, 24) >>)

dct_approx_2d(in) ==
    Only({Transpose8(Rows64(Eager([x \in 0..7 |-> approx_dct_1d_stride(Col8(temp, x))]))) :
            temp \in {Rows64(Eager([y \in 0..7 |-> approx_dct_1d_stride(Row8(in, y))]))}})

idct_approx_2d(in) ==
    Only({Rows64(Eager([y \in 0..7 |-> approx_idct_1d_stride(Row8(temp, y))])) :
            temp \in {Cols64(Eager([x \in 0..7 |-> approx_idct_1d_stride(Col8(in, x))]))}})

(***************************************************************************)
(* dct_identity.c                                                          *)
(***************************************************************************)
dct_identity_2d(input) == input

idct_identity_2d(input) == input

(***************************************************************************)
(* quantization.c                                                          *)
(***************************************************************************)
RECIP_SHIFT == 16

\* 1 << n and x >> n (arithmetic shift: floor division) on plain integers.
Pow2(n) == IF n = 0 THEN 1 ELSE 2 ^ n

Shr(x, n) == x \div Pow2(n)

Q50_LUMA == Arr(<<
    16, 11, 10, 16,  24,  40,  51,  61,
    12, 12, 14, 19,  26,  58,  60,  55,
    14, 13, 16, 24,  40,  57,  69,  56,
    14, 17, 22, 29,  51,  87,  80,  62,
    18, 22, 37, 56,  68, 109, 103,  77,
    24, 35, 55, 64,  81, 104, 113,  92,
    49, 64, 78, 87, 103, 121, 120, 101,
    72, 92, 95, 98, 112, 100, 103,  99 >>)

Q50_CHROMA == Arr(<<
    17, 18, 24, 47, 99, 99, 99, 99,
    18, 21, 26, 66, 99, 99, 99, 99,
    24, 26, 56, 99, 99, 99, 99, 99,
    47, 66, 99, 99, 99, 99, 99, 99,
    99, 99, 99, 99, 99, 99, 99, 99,
    99, 99, 99, 99, 99, 99, 99, 99,
    99, 99, 99, 99, 99, 99, 99, 99,
    99, 99, 99, 99, 99, 99, 99, 99 >>)

\* recip_table[i] = ((1U << RECIP_SHIFT) + quant_table[i] / 2) / quant_table[i]
recip_entry(qt) == (Pow2(RECIP_SHIFT) + c_div(qt, 2)) \div qt

compute_reciprocal_table(quant_table) ==
    Eager([i \in Idx64 |-> recip_entry(quant_table[i])])

\* The product of quantize_fast without its shift by RECIP_SHIFT.
quantize_fast_mag_unshifted(mag, recip) == WToInt32(WMul(W(mag), W(recip)))

\* (int32_t)(((int64_t)mag * recip) >> RECIP_SHIFT) for mag >= 0: the shift
\* of a non-negative product is the division by 2^RECIP_SHIFT.
quantize_fast_mag(mag, recip) ==
    WToInt32(WDiv(WMul(W(mag), W(recip)), W(Pow2(RECIP_SHIFT))))

\* One element of quantize_fast.
quantize_fast_entry(dct, qt, recip) ==
    IF dct >= 0
    THEN quantize_fast_mag(dct + Shr(qt, 1), recip)
    ELSE -quantize_fast_mag((-dct) + Shr(qt, 1), recip)

quantize_fast(dct_block, quant_table, recip_table) ==
    Eager([i \in Idx64 |->
             quantize_fast_entry(dct_block[i], quant_table[i], recip_table[i])])

\* One element of quantize (the division form).
quantize_entry(dct, qt) ==
    IF dct >= 0
    THEN c_div(dct + Shr(qt, 1), qt)
    ELSE c_div(dct - Shr(qt, 1), qt)

quantize(dct_block, quant_table) ==
    Eager([i \in Idx64 |-> quantize_entry(dct_block[i], quant_table[i])])

dequantize(quant_block, quant_table) ==
    Eager([i \in Idx64 |-> quant_block[i] * quant_table[i]])

\* The float quality factor k is held as the integer k * KUnit (k is a
\* multiple of 1/KUnit, which a float holds exactly); (int32_t)(k * 1024)
\* truncates toward zero.
KUnit == 2 ^ 11

k_fixed_of(k) == c_div(k * 1024, KUnit)

scale_quant_table(base_table, k) ==
    LET k_fixed == k_fixed_of(k)
    IN  Eager([i \in Idx64 |->
                 LET scaled == Shr(base_table[i] * k_fixed, 10)
                 IN  IF scaled < 1 THEN 1 ELSE scaled])

APPROX_NORM_1024 == Arr(<<2896, 2508, 2048, 2508, 2896, 2508, 2048, 2508>>)

approx_clamp(scaled) == IF scaled < 1 THEN 1 ELSE scaled

approx_norm_entry(q, i, j) ==
    approx_clamp(WToInt32(WDiv(
        WAdd(WMul(W(q), WMul(W(APPROX_NORM_1024[i]), W(APPROX_NORM_1024[j]))),
             W(524288)),
        W(1048576))))

apply_approx_norm_correction(quant_table) ==
    Eager([x \in Idx64 |-> approx_norm_entry(quant_table[x], x \div 8, x % 8)])

(***************************************************************************)
(* colorspace.c                                                            *)
(***************************************************************************)
\* rgb_to_ycbcr_batch's pixel without the level shift of the luma sample.
rgb_to_ycbcr_pixel_unshifted(r, g, b) ==
    << c_div(299 * r + 587 * g + 114 * b + 500, 1000),
       c_div((-169) * r - 331 * g + 500 * b + 500, 1000),
       c_div(500 * r - 419 * g - 81 * b + 500, 1000) >>

\* One pixel of rgb_to_ycbcr_batch: <<y, cb, cr>>.
rgb_to_ycbcr_pixel(r, g, b) ==
    << c_div(299 * r + 587 * g + 114 * b + 500, 1000) - 128,
       c_div((-169) * r - 331 * g + 500 * b + 500, 1000),
       c_div(500 * r - 419 * g - 81 * b + 500, 1000) >>

clamp255(v) == IF v < 0 THEN 0 ELSE IF v > 255 THEN 255 ELSE v

\* ycbcr_to_rgb_batch's pixel without the + 128 that undoes the level shift
\* of the luma plane.
ycbcr_to_rgb_pixel_unshifted(y, cb, cr) ==
    <<clamp255(y + c_div(1402 * cr + 500, 1000)),
      clamp255(y - c_div(344 * cb + 714 * cr + 500, 1000)),
      clamp255(y + c_div(1772 * cb + 500, 1000))>>

\* One pixel of ycbcr_to_rgb_batch: <<r, g, b>>.
ycbcr_to_rgb_pixel(y, cb, cr) ==
    LET yv == y + 128
        r  == yv + c_div(1402 * cr + 500, 1000)
        g  == yv - c_div(344 * cb + 714 * cr + 500, 1000)
        bv == yv + c_div(1772 * cb + 500, 1000)
    IN  <<clamp255(r), clamp255(g), clamp255(bv)>>

\* rgb_to_ycbcr_batch(rgb, y, cb, cr, n): the three planes.
rgb_to_ycbcr_batch(rgb, n) ==
    LET px == Eager([i \in 0..(n - 1) |->
                       rgb_to_ycbcr_pixel(rgb[3 * i], rgb[3 * i + 1], rgb[3 * i + 2])])
    IN  [y  |-> Eager([i \in 0..(n - 1) |-> px[i][1]]),
         cb |-> Eager([i \in 0..(n - 1) |-> px[i][2]]),
         cr |-> Eager([i \in 0..(n - 1) |-> px[i][3]])]

\* ycbcr_to_rgb_batch(y, cb, cr, rgb, n): the 3n bytes written.
ycbcr_to_rgb_batch(y, cb, cr, n) ==
    LET px == Eager([i \in 0..(n - 1) |-> ycbcr_to_rgb_pixel(y[i], cb[i], cr[i])])
    IN  Eager([b \in 0..(3 * n - 1) |-> px[b \div 3][(b % 3) + 1]])

\* The parameter conversion to uint8_t of the single-pixel functions, and
\* the conversion of their stores through uint8_t pointers.
uint8_cast(v) == v % 256

\* void rgb_to_ycbcr(uint8_t r, uint8_t g, uint8_t b, &y, &cb, &cr), the
\* legacy single-pixel function: <<y, cb, cr>>.
rgb_to_ycbcr(r, g, b) ==
    << c_div(299 * uint8_cast(r) + 587 * uint8_cast(g) + 114 * uint8_cast(b) + 500,
             1000) - 128,
       c_div((-169) * uint8_cast(r) - 331 * uint8_cast(g) + 500 * uint8_cast(b) + 500,
             1000),
       c_div(500 * uint8_cast(r) - 419 * uint8_cast(g) - 81 * uint8_cast(b) + 500,
             1000) >>

\* ycbcr_to_rgb with its three results stored as computed, without the
\* saturation to 0 .. 255.
ycbcr_to_rgb_unclamped(y, cb, cr) ==
    <<uint8_cast((y + 128) + c_div(1402 * cr + 500, 1000)),
      uint8_cast((y + 128) - c_div(344 * cb + 714 * cr + 500, 1000)),
      uint8_cast((y + 128) + c_div(1772 * cb + 500, 1000))>>

\* void ycbcr_to_rgb(int32_t y, int32_t cb, int32_t cr, &r, &g, &b), the
\* legacy single-pixel function: <<r, g, b>>.
ycbcr_to_rgb(y, cb, cr) ==
    LET y1 == y + 128
        rv == y1 + c_div(1402 * cr + 500, 1000)
        gv == y1 - c_div(344 * cb + 714 * cr + 500, 1000)
        bv == y1 + c_div(1772 * cb + 500, 1000)
    IN  <<uint8_cast(IF rv < 0 THEN 0 ELSE IF rv > 255 THEN 255 ELSE rv),
          uint8_cast(IF gv < 0 THEN 0 ELSE IF gv > 255 THEN 255 ELSE gv),
          uint8_cast(IF bv < 0 THEN 0 ELSE IF bv > 255 THEN 255 ELSE bv)>>

(***************************************************************************)
(* utils.c: block extraction and reconstruction.  A loop nest is the set   *)
(* of the stores it makes: <<d, 1, s>> is dst[d] = src[s] and <<d, 0, 0>>  *)
(* is dst[d] = 0.  Apply carries the stores out on the destination buffer; *)
(* a load outside the source buffer yields the arbitrary value g.          *)
(***************************************************************************)
Zeros(n) == Eager([i \in 0..(n - 1) |-> 0])

Rd(a, i, g) == IF i \in DOMAIN a THEN a[i] ELSE g

StoreIdx(ws) == {w[1] : w \in ws}

LoadIdx(ws) == {w[3] : w \in {v \in ws : v[2] = 1}}

Apply(dst, src, ws, g) ==
    LET idx == StoreIdx(ws)
    IN  Eager([p \in DOMAIN dst |->
                 IF p \in idx
                 THEN LET w == CHOOSE v \in ws : v[1] = p
                      IN  IF w[2] = 1 THEN Rd(src, w[3], g) ELSE 0
                 ELSE dst[p]])

extract_center_blocks(width, bx, bx_full, by_full) ==
    { << (j * bx + i) * 64 + y * 8 + k, 1,
         (j * 8 * width) + (i * 8) + y * width + k >> :
      j \in 0..(by_full - 1), i \in 0..(bx_full - 1), y \in 0..7, k \in 0..7 }

extract_edge_right(width, bx, bx_full, by_full) ==
    LET i  == bx_full
        px == width - i * 8
    IN  { << (j * bx + i) * 64 + y * 8 + k, 1,
             (j * 8 * width) + (i * 8) + y * width + k >> :
          j \in 0..(by_full - 1), y \in 0..7, k \in 0..(px - 1) }
        \cup
        { << (j * bx + i) * 64 + y * 8 + k, 0, 0 >> :
          j \in 0..(by_full - 1), y \in 0..7, k \in px..7 }

extract_edge_bottom(width, height, bx, bx_full, by_full) ==
    LET j  == by_full
        py == height - j * 8
    IN  { << (j * bx + 0) * 64 + i * 64 + y * 8 + k, 1,
             (j * 8 * width) + (i * 8) + y * width + k >> :
          i \in 0..(bx_full - 1), y \in 0..(py - 1), k \in 0..7 }
        \cup
        { << (j * bx + 0) * 64 + i * 64 + y * 8 + k, 0, 0 >> :
          i \in 0..(bx_full - 1), y \in py..7, k \in 0..7 }

\* The corner tile with its partial rows copied eight samples wide, the
\* samples past the right edge taken from the plane instead of zeroed.
extract_edge_corner_unpadded(width, height, bx, bx_full, by_full) ==
    { << (by_full * bx + bx_full) * 64 + y * 8 + k, 1,
         (by_full * 8 * width) + (bx_full * 8) + y * width + k >> :
      y \in 0..(height - by_full * 8 - 1), k \in 0..7 }

extract_edge_corner(width, height, bx, bx_full, by_full) ==
    LET i  == bx_full
        j  == by_full
        px == width - i * 8
        py == height - j * 8
    IN  { << (j * bx + i) * 64 + y * 8 + k, 1,
             (j * 8 * width) + (i * 8) + y * width + k >> :
          y \in 0..(py - 1), k \in 0..(px - 1) }
        \cup
        { << (j * bx + i) * 64 + y * 8 + k, 0, 0 >> :
          y \in 0..(py - 1), k \in px..7 }
        \cup
        { << (j * bx + i) * 64 + y * 8 + k, 0, 0 >> :
          y \in py..7, k \in 0..7 }

extract_edge_blocks(width, height, bx, by, bx_full, by_full) ==
    (IF bx > bx_full
     THEN extract_edge_right(width, bx, bx_full, by_full) ELSE {})
    \cup
    (IF by > by_full
     THEN extract_edge_bottom(width, height, bx, bx_full, by_full) ELSE {})
    \cup
    (IF bx > bx_full /\ by > by_full
     THEN extract_edge_corner(width, height, bx, bx_full, by_full) ELSE {})

\* The stores extract_blocks makes into the tile buffer.
extract_stores(width, height) ==
    LET bx      == c_div(width + 7, 8)
        by      == c_div(height + 7, 8)
        bx_full == c_div(width, 8)
        by_full == c_div(height, 8)
    IN  extract_center_blocks(width, bx, bx_full, by_full)
        \cup
        (IF bx > bx_full \/ by > by_full
         THEN extract_edge_blocks(width, height, bx, by, bx_full, by_full)
         ELSE {})

\* extract_blocks after its allocation succeeded: *num_blocks and the tile
\* buffer (calloc zeroes it, then the two paths store into it).
extract_blocks(channel, width, height, g) ==
    LET n  == c_div(width + 7, 8) * c_div(height + 7, 8)
        ws == extract_stores(width, height)
    IN  [num_blocks |-> n, blocks |-> Apply(Zeros(n * 64), channel, ws, g)]

reconstruct_center_blocks(width, bx, bx_full, by_full) ==
    { << (j * 8 * width) + (i * 8) + y * width + k, 1,
         (j * bx + i) * 64 + y * 8 + k >> :
      j \in 0..(by_full - 1), i \in 0..(bx_full - 1), y \in 0..7, k \in 0..7 }

\* The right column of tiles copied back eight samples wide, padding
\* included.
reconstruct_edge_right_unclipped(width, bx, bx_full, by_full) ==
    { << (j * 8 * width) + (bx_full * 8) + y * width + k, 1,
         (j * bx + bx_full) * 64 + y * 8 + k >> :
      j \in 0..(by_full - 1), y \in 0..7, k \in 0..7 }

reconstruct_edge_right(width, bx, bx_full, by_full) ==
    LET i  == bx_full
        px == width - i * 8
    IN  { << (j * 8 * width) + (i * 8) + y * width + k, 1,
             (j * bx + i) * 64 + y * 8 + k >> :
          j \in 0..(by_full - 1), y \in 0..7, k \in 0..(px - 1) }

reconstruct_edge_bottom(width, height, bx, bx_full, by_full) ==
    LET j  == by_full
        py == height - j * 8
    IN  { << (j * 8 * width) + (i * 8) + y * width + k, 1,
             (j * bx + i) * 64 + y * 8 + k >> :
          i \in 0..(bx_full - 1), y \in 0..(py - 1), k \in 0..7 }

reconstruct_edge_corner(width, height, bx, bx_full, by_full) ==
    LET i  == bx_full
        j  == by_full
        px == width - i * 8
        py == height - j * 8
    IN  { << (j * 8 * width) + (i * 8) + y * width + k, 1,
             (j * bx + i) * 64 + y * 8 + k >> :
          y \in 0..(py - 1), k \in 0..(px - 1) }

reconstruct_edge_blocks(width, height, bx, by, bx_full, by_full) ==
    (IF bx > bx_full
     THEN reconstruct_edge_right(width, bx, bx_full, by_full) ELSE {})
    \cup
    (IF by > by_full
     THEN reconstruct_edge_bottom(width, height, bx, bx_full, by_full) ELSE {})
    \cup
    (IF bx > bx_full /\ by > by_full
     THEN reconstruct_edge_corner(width, height, bx, bx_full, by_full) ELSE {})

\* The stores reconstruct_channel makes (the code never uses num_blocks).
reconstruct_stores(width, height) ==
    LET bx      == c_div(width + 7, 8)
        by      == c_div(height + 7, 8)
        bx_full == c_div(width, 8)
        by_full == c_div(height, 8)
    IN  reconstruct_center_blocks(width, bx, bx_full, by_full)
        \cup
        (IF bx > bx_full \/ by > by_full
         THEN reconstruct_edge_blocks(width, height, bx, by, bx_full, by_full)
         ELSE {})

\* reconstruct_channel(blocks, num_blocks, width, height, channel): the
\* channel buffer afterwards.
reconstruct_channel(blocks, num_blocks, width, height, channel, g) ==
    Apply(channel, blocks, reconstruct_stores(width, height), g)

(***************************************************************************)
(* jpeg_codec.h: error codes, transform methods, colour spaces.            *)
(***************************************************************************)
JPEG_SUCCESS == 0
JPEG_ERROR_NULL_POINTER == -1
JPEG_ERROR_INVALID_DIMENSIONS == -2
JPEG_ERROR_ALLOCATION_FAILED == -3
JPEG_ERROR_INVALID_METHOD == -4

JPEG_DCT_LOEFFLER == 0
JPEG_DCT_MATRIX == 1
JPEG_DCT_APPROX == 2
JPEG_DCT_IDENTITY == 3

JPEG_COLORSPACE_RGB == 0
JPEG_COLORSPACE_GRAYSCALE == 1

(***************************************************************************)
(* The allocator.  The heap is the sequence of the blocks ever allocated;  *)
(* a pointer is a block's index and 0 is the null pointer.  The platform   *)
(* record pf says which allocation call of an API call is refused (refuse, *)
(* 0 for none), whether a zero-size request yields a null pointer          *)
(* (zero_null), and what an invalid load does: trap, or yield the value g. *)
(***************************************************************************)
Calloc(h, ord, size, pf) ==
    IF ord = pf.refuse \/ size < 0 \/ (size = 0 /\ pf.zero_null)
    THEN [p |-> 0, heap |-> h]
    ELSE [p |-> Len(h) + 1, heap |-> Append(h, [live |-> TRUE, frees |-> 0])]

\* Consecutive calloc calls, the first of them call number ord of the API
\* call: the pointers they return, in order, and the heap afterwards.
RECURSIVE Callocs(_, _, _, _)
CallocsFrom(a, ord, sizes, pf) ==
    [ps   |-> <<a.p>> \o Callocs(a.heap, ord + 1, Tail(sizes), pf).ps,
     heap |-> Callocs(a.heap, ord + 1, Tail(sizes), pf).heap]

Callocs(h, ord, sizes, pf) ==
    IF sizes = <<>> THEN [ps |-> <<>>, heap |-> h]
    ELSE CallocsFrom(Calloc(h, ord, Head(sizes), pf), ord, sizes, pf)

Free(h, p) ==
    IF p = 0 THEN h
    ELSE [h EXCEPT ![p] = [live |-> FALSE, frees |-> @.frees + 1]]

\* free(ps[1]); ...; free(ps[n])
RECURSIVE Frees(_, _)
Frees(h, ps) == IF ps = <<>> THEN h ELSE Frees(Free(h, Head(ps)), Tail(ps))

\* A buffer field of a struct: the pointer p and, behind it, the array a.
Buf(p, a) == [p |-> p, a |-> a]

NoBuf == Buf(0, <<>>)

\* The field for a fresh zeroed array of n elements at p (null if p is).
NewBuf(p, n) == IF p = 0 THEN NoBuf ELSE Buf(p, Zeros(n))

\* void jpeg_free_compressed(jpeg_compressed_t *compressed): the heap after.
jpeg_free_compressed(h, compressed, c) ==
    IF compressed # 0
    THEN Frees(h, <<c.y_coeffs.p, c.y_quantized.p, c.cb_coeffs.p,
                    c.cb_quantized.p, c.cr_coeffs.p, c.cr_quantized.p,
                    compressed>>)
    ELSE h

\* void jpeg_free_image(jpeg_image_t *image): the heap after.
jpeg_free_image(h, image, img) ==
    IF image # 0
    THEN Frees(h, <<img.data.p, image>>)
    ELSE h

\* calloc(1, sizeof(jpeg_compressed_t)): every field zero.
ZeroCompressed ==
    [width |-> 0, height |-> 0, quality_factor |-> 0, dct_method |-> 0,
     num_blocks_y |-> 0, num_blocks_chroma |-> 0,
     y_coeffs |-> NoBuf, y_quantized |-> NoBuf,
     cb_coeffs |-> NoBuf, cb_quantized |-> NoBuf,
     cr_coeffs |-> NoBuf, cr_quantized |-> NoBuf]

\* calloc(1, sizeof(jpeg_image_t)): every field zero.
ZeroImage ==
    [width |-> 0, height |-> 0, colorspace |-> 0, data |-> NoBuf]

\* What a call leaves behind for inspection besides its results: the tables
\* it built, the tiles it transformed, whether it loaded from image->data,
\* whether it made an invalid load, whether it asked for a zero-size block,
\* and how many elements it loaded from each quantized array.
NoTrace ==
    [quant_luma |-> <<>>, quant_chroma |-> <<>>,
     recip_luma |-> <<>>, recip_chroma |-> <<>>,
     y_blks |-> <<>>, cb_blks |-> <<>>, cr_blks |-> <<>>,
     read_data |-> FALSE, invalid_load |-> FALSE, zero_alloc |-> FALSE,
     q_loads |-> 0]

\* Tile b of a tile buffer (a load outside the buffer yields g).
Tile(blocks, b, g) == Eager([i \in Idx64 |-> Rd(blocks, b * 64 + i, g)])

\* The n tiles of a sequence of tiles as one contiguous buffer.
Flat(tiles, n) ==
    Eager([i \in 0..(n * 64 - 1) |-> tiles[i \div 64][i % 64]])

\* The selection of dct_func in jpeg_compress.
dct_func(dct_method, in) ==
    IF dct_method = JPEG_DCT_MATRIX THEN dct_matrix_2d(in)
    ELSE IF dct_method = JPEG_DCT_APPROX THEN dct_approx_2d(in)
    ELSE IF dct_method = JPEG_DCT_IDENTITY THEN dct_identity_2d(in)
    ELSE dct_loeffler_2d(in)

\* The selection of idct_func in jpeg_decompress.
idct_func(dct_method, in) ==
    IF dct_method = JPEG_DCT_MATRIX THEN idct_matrix_2d(in)
    ELSE IF dct_method = JPEG_DCT_APPROX THEN idct_approx_2d(in)
    ELSE IF dct_method = JPEG_DCT_IDENTITY THEN idct_identity_2d(in)
    ELSE idct_loeffler_2d(in)

(***************************************************************************)
(* The values that jpeg_decompress computes on the way from a quantized    *)
(* tile to the inverse-transformed tile, each as the exact integer, and    *)
(* whether the C object that receives it can hold it.                      *)
(***************************************************************************)
\* An int64_t holds x.
Fits64(x) == x.m[5] < 128 \/ (x.s = -1 /\ x.m = <<0, 0, 0, 0, 128>>)

\* An int32_t holds x.
Fits32(x) ==
    \/ x.m[3] < 8 /\ x.m[4] = 0 /\ x.m[5] = 0
    \/ x.s = -1 /\ x.m = <<0, 0, 8, 0, 0>>

\* quantization.c dequantize: the int products quant_block[i] * quant_table[i].
dequantize_fits(quant_block, quant_table) ==
    \A i \in Idx64 : Fits32(WMul(W(quant_block[i]), W(quant_table[i])))

\* dct_approx.c idct_1d_stride: the factor of src[k] in a0..a7.
approx_prescale == Arr(<<3, 4, 6, 4, 3, 4, 6, 4>>)

\* dct_approx.c idct_1d_stride: the sign of a0..a7 in the sum of dst[n*s].
approx_signs == Arr(<<
    Arr(<<1,  1,  1,  1,  1,  1,  0,  0>>),
    Arr(<<1,  1,  0,  0, -1, -1, -1, -1>>),
    Arr(<<1,  1,  0, -1, -1,  0,  1,  1>>),
    Arr(<<1,  0, -1, -1,  1,  1,  0, -1>>),
    Arr(<<1,  0, -1,  1,  1, -1,  0,  1>>),
    Arr(<<1, -1,  0,  1, -1,  0,  1, -1>>),
    Arr(<<1, -1,  0,  0, -1,  1, -1,  1>>),
    Arr(<<1, -1,  1, -1,  1, -1,  0,  0>>) >>)

\* The sum of dst[n*s] up to the term of a_j, as the exact integer.
RECURSIVE approx_partial(_, _, _)
approx_partial(src, n, j) ==
    IF j = 0 THEN WMul(W(src[0]), W(approx_prescale[0]))
    ELSE WAdd(approx_partial(src, n, j - 1),
              WMul(W(approx_signs[n][j]),
                   WMul(W(src[j]), W(approx_prescale[j]))))

\* dct_approx.c idct_1d_stride: a0..a7, the sums and the sums + 12, all int32_t.
approx_idct_fits(src) ==
    /\ \A j \in 0..7 : Fits32(WMul(W(src[j]), W(approx_prescale[j])))
    /\ \A n \in 0..7 :
          /\ \A j \in 0..7 : Fits32(approx_partial(src, n, j))
          /\ Fits32(WAdd(approx_partial(src, n, 7), W(12)))

\* dct_matrix.c idct_1d_stride: the products (int64_t)src[j] * NORM[j] and
\* (int64_t)src[j] * NORM[j] * C[j][n], and the sums of these left to right.
matrix_idct_fits(src) ==
    \A n \in 0..7 : \A j \in 0..7 :
        /\ Fits64(WMul(W(src[j]), W(NORM[j])))
        /\ Fits64(WMul(WMul(W(src[j]), W(NORM[j])), W(C[j][n])))
        /\ Fits64(MxIDot(src, n, j))

\* dct_loeffler.c idct_1d_stride, the odd part: n0..n3, their sums and
\* differences, and 2 * (int64_t)LF_SCALE * (n0 + n3) and its like.
loeffler_odd_fits(n) ==
    /\ \A i \in 1..4 : Fits64(n[i])
    /\ \A x \in {WAdd(n[1], n[4]), WSub(n[1], n[4]),
                 WAdd(n[2], n[3]), WSub(n[2], n[3])} :
          Fits64(x) /\ Fits64(WMul(WMul(W(2), W(SCALE_CONST)), x))

\* dct_loeffler.c idct_1d_stride, the final butterfly: s + d and s - d.
loeffler_final_fits(s, d) ==
    \A i \in 1..4 : Fits64(s[i]) /\ Fits64(WAdd(s[i], d[i]))
                                 /\ Fits64(WSub(s[i], d[i]))

\* dct_loeffler.c idct_1d_stride: the int64_t values of one call.
loeffler_idct_fits(src) ==
    \A n \in {LfOddSums(src[1] * 2, src[3] * 2, src[5] * 2, src[7] * 2)} :
        /\ loeffler_odd_fits(n)
        /\ loeffler_final_fits(LfEven(src), LfOdd(n))

\* idct_1d_stride of the method on one vector of eight.
idct_1d(dct_method, src) ==
    IF dct_method = JPEG_DCT_MATRIX THEN matrix_idct_1d_stride(src)
    ELSE IF dct_method = JPEG_DCT_APPROX THEN approx_idct_1d_stride(src)
    ELSE loeffler_idct_1d_stride(src)

idct_1d_fits(dct_method, src) ==
    IF dct_method = JPEG_DCT_MATRIX THEN matrix_idct_fits(src)
    ELSE IF dct_method = JPEG_DCT_APPROX THEN approx_idct_fits(src)
    ELSE loeffler_idct_fits(src)

\* The first stage of one tile of jpeg_decompress that computes a value its
\* C object cannot hold: the dequantization, the column pass of the inverse
\* transform, its row pass, or none.
tile_overflow(dct_method, q, table) ==
    IF dct_method = JPEG_DCT_IDENTITY THEN "none"
    ELSE IF ~dequantize_fits(q, table) THEN "dequantize"
    ELSE IF \E x \in 0..7 : ~idct_1d_fits(dct_method, Col8(dequantize(q, table), x))
    THEN "columns"
    ELSE IF \E temp \in {Cols64(Eager([x \in 0..7 |->
                            idct_1d(dct_method, Col8(dequantize(q, table), x))]))} :
               \E y \in 0..7 : ~idct_1d_fits(dct_method, Row8(temp, y))
    THEN "rows"
    ELSE "none"

(***************************************************************************)
(* codec.c: jpeg_compress.  The call is the composition of its stages in   *)
(* program order.  A stage maps the call's frame to the frame after it:    *)
(* ret, the caller's *compressed (cptr), the struct behind it (cstruct),   *)
(* the heap, whether the call has returned (done) or trapped on an invalid *)
(* load (trap), the trace, and the locals: the plane pointers (pl) and     *)
(* planes (ch), the tile buffer pointers (tb) and buffers (blks), the      *)
(* transformed tiles (dct).  Channels are numbered 1 (Y), 2 (Cb), 3 (Cr).  *)
(***************************************************************************)
\* Lines 15-35: the struct and its scalar fields, the tables.  a1 is the
\* allocation of the struct.
compress_fields(image, params, a1) ==
    [ret |-> JPEG_SUCCESS, done |-> FALSE, trap |-> FALSE,
     cptr |-> a1.p,
     cstruct |-> [ZeroCompressed EXCEPT
                    !.width = image.width,
                    !.height = image.height,
                    !.quality_factor = params.quality_factor,
                    !.dct_method = params.dct_method,
                    !.num_blocks_y = c_div(image.width + 7, 8)
                                     * c_div(image.height + 7, 8),
                    !.num_blocks_chroma = c_div(image.width + 7, 8)
                                          * c_div(image.height + 7, 8)],
     heap |-> a1.heap,
     trace |-> [NoTrace EXCEPT
                  !.quant_luma = scale_quant_table(Q50_LUMA, params.quality_factor),
                  !.quant_chroma = scale_quant_table(Q50_CHROMA, params.quality_factor),
                  !.recip_luma = compute_reciprocal_table(
                      scale_quant_table(Q50_LUMA, params.quality_factor)),
                  !.recip_chroma = compute_reciprocal_table(
                      scale_quant_table(Q50_CHROMA, params.quality_factor))],
     pl |-> <<>>, ch |-> <<>>, tb |-> <<>>, blks |-> <<>>, dct |-> <<>>]

\* The struct with its six arrays at the pointers ps, block_size elements each.
WithArrays(c, ps, block_size) ==
    [c EXCEPT !.y_coeffs = NewBuf(ps[1], block_size),
              !.y_quantized = NewBuf(ps[2], block_size),
              !.cb_coeffs = NewBuf(ps[3], block_size),
              !.cb_quantized = NewBuf(ps[4], block_size),
              !.cr_coeffs = NewBuf(ps[5], block_size),
              !.cr_quantized = NewBuf(ps[6], block_size)]

compress_arrays_got(st, a, block_size) ==
    IF \E i \in 1..6 : a.ps[i] = 0
    THEN [st EXCEPT !.done = TRUE, !.ret = JPEG_ERROR_ALLOCATION_FAILED,
                    !.cstruct = WithArrays(@, a.ps, block_size),
                    !.heap = jpeg_free_compressed(
                                 a.heap, st.cptr,
                                 WithArrays(st.cstruct, a.ps, block_size))]
    ELSE [st EXCEPT !.cstruct = WithArrays(@, a.ps, block_size),
                    !.heap = a.heap]

\* Lines 37-50: the six coefficient arrays (allocation calls 2..7).
compress_arrays(st, pf) ==
    IF st.done THEN st
    ELSE compress_arrays_got(
             st,
             Callocs(st.heap, 2,
                     <<st.cstruct.num_blocks_y * 64, st.cstruct.num_blocks_y * 64,
                       st.cstruct.num_blocks_y * 64, st.cstruct.num_blocks_y * 64,
                       st.cstruct.num_blocks_y * 64, st.cstruct.num_blocks_y * 64>>, pf),
             st.cstruct.num_blocks_y * 64)

\* The error path of lines 57-61 without its three free calls.
compress_planes_got_unfreed(st, a) ==
    IF \E i \in 1..3 : a.ps[i] = 0
    THEN [st EXCEPT !.done = TRUE, !.ret = JPEG_ERROR_ALLOCATION_FAILED,
                    !.heap = jpeg_free_compressed(a.heap, st.cptr, st.cstruct)]
    ELSE [st EXCEPT !.heap = a.heap, !.pl = a.ps]

compress_planes_got(st, a) ==
    IF \E i \in 1..3 : a.ps[i] = 0
    THEN [st EXCEPT !.done = TRUE, !.ret = JPEG_ERROR_ALLOCATION_FAILED,
                    !.heap = jpeg_free_compressed(Frees(a.heap, a.ps),
                                                  st.cptr, st.cstruct)]
    ELSE [st EXCEPT !.heap = a.heap, !.pl = a.ps]

\* Lines 52-61: the three planes (allocation calls 8..10).
compress_planes(st, image, pf) ==
    IF st.done THEN st
    ELSE compress_planes_got(
             st, Callocs(st.heap, 8,
                         <<image.width * image.height, image.width * image.height,
                           image.width * image.height>>, pf))

\* The buffer behind image->data as the loads see it: n bytes, each the
\* arbitrary value g when the pointer is null.
DataOf(image, n, g) ==
    IF image.data_null THEN Eager([i \in 0..(n - 1) |-> g]) ELSE image.data

\* The grayscale loop of lines 68-77.
gray_planes(data, n) ==
    <<Eager([i \in 0..(n - 1) |-> data[i] - 128]), Zeros(n), Zeros(n)>>

rgb_planes(p) == <<p.y, p.cb, p.cr>>

\* Lines 63-78: colour conversion into the planes.
compress_convert(st, image, pf) ==
    IF st.done THEN st
    ELSE IF image.data_null /\ pf.trap
    THEN [st EXCEPT !.done = TRUE, !.trap = TRUE,
                    !.trace.read_data = TRUE, !.trace.invalid_load = TRUE]
    ELSE [st EXCEPT
            !.trace.read_data = TRUE,
            !.trace.invalid_load = image.data_null,
            !.ch = IF image.colorspace = JPEG_COLORSPACE_RGB
                   THEN rgb_planes(rgb_to_ycbcr_batch(
                            DataOf(image, 3 * image.width * image.height, pf.g),
                            image.width * image.height))
                   ELSE gray_planes(
                            DataOf(image, image.width * image.height, pf.g),
                            image.width * image.height)]

\* A tile buffer as the transform loop sees it: nothing behind a null pointer.
BlocksAt(p, e) == IF p = 0 THEN <<>> ELSE e.blocks

compress_extract_got(st, a, e) ==
    [st EXCEPT !.heap = a.heap, !.tb = a.ps,
               !.blks = <<BlocksAt(a.ps[1], e[1]), BlocksAt(a.ps[2], e[2]),
                          BlocksAt(a.ps[3], e[3])>>,
               !.trace.y_blks = BlocksAt(a.ps[1], e[1]),
               !.trace.cb_blks = BlocksAt(a.ps[2], e[2]),
               !.trace.cr_blks = BlocksAt(a.ps[3], e[3])]

\* Lines 80-84: the three extract_blocks calls (allocation calls 11..13),
\* their results unchecked.
compress_extract(st, image, pf) ==
    IF st.done THEN st
    ELSE compress_extract_got(
             st,
             Callocs(st.heap, 11,
                     <<st.cstruct.num_blocks_y * 64, st.cstruct.num_blocks_y * 64,
                       st.cstruct.num_blocks_y * 64>>, pf),
             Eager([c \in 1..3 |->
                      extract_blocks(st.ch[c], image.width, image.height, pf.g)]))

\* Lines 86-101: dct_func on every tile of every channel, into the coeffs
\* arrays.
compress_dct(st, params, pf) ==
    IF st.done THEN st
    ELSE IF (\E c \in 1..3 : st.tb[c] = 0) /\ pf.trap
    THEN [st EXCEPT !.done = TRUE, !.trap = TRUE, !.trace.invalid_load = TRUE]
    ELSE [st EXCEPT
            !.trace.invalid_load = @ \/ \E c \in 1..3 : st.tb[c] = 0,
            !.dct = Eager([c \in 1..3 |->
                       Eager([b \in 0..(st.cstruct.num_blocks_y - 1) |->
                                dct_func(params.dct_method,
                                         Tile(st.blks[c], b, pf.g))])])]

\* The quantized tiles of channel c: the memcpy of line 104-106 or the
\* quantize_fast of lines 109-111.
QuantTiles(st, params, c) ==
    IF params.skip_quantization # 0 THEN st.dct[c]
    ELSE Eager([b \in 0..(st.cstruct.num_blocks_y - 1) |->
                  quantize_fast(
                      st.dct[c][b],
                      IF c = 1 THEN st.trace.quant_luma ELSE st.trace.quant_chroma,
                      IF c = 1 THEN st.trace.recip_luma ELSE st.trace.recip_chroma)])

\* The store of the loop's results when the loop runs for tile 0 only: the
\* rest of each array stays as calloc left it.
FirstTile(tiles, n) ==
    Eager([i \in 0..(n * 64 - 1) |-> IF i < 64 THEN tiles[0][i] ELSE 0])

compress_quantize_got_first_tile(st, q) ==
    [st EXCEPT
       !.cstruct.y_coeffs.a     = FirstTile(st.dct[1], st.cstruct.num_blocks_y),
       !.cstruct.cb_coeffs.a    = FirstTile(st.dct[2], st.cstruct.num_blocks_y),
       !.cstruct.cr_coeffs.a    = FirstTile(st.dct[3], st.cstruct.num_blocks_y),
       !.cstruct.y_quantized.a  = FirstTile(q[1], st.cstruct.num_blocks_y),
       !.cstruct.cb_quantized.a = FirstTile(q[2], st.cstruct.num_blocks_y),
       !.cstruct.cr_quantized.a = FirstTile(q[3], st.cstruct.num_blocks_y)]

compress_quantize_got(st, q) ==
    [st EXCEPT
       !.cstruct.y_coeffs.a     = Flat(st.dct[1], st.cstruct.num_blocks_y),
       !.cstruct.cb_coeffs.a    = Flat(st.dct[2], st.cstruct.num_blocks_y),
       !.cstruct.cr_coeffs.a    = Flat(st.dct[3], st.cstruct.num_blocks_y),
       !.cstruct.y_quantized.a  = Flat(q[1], st.cstruct.num_blocks_y),
       !.cstruct.cb_quantized.a = Flat(q[2], st.cstruct.num_blocks_y),
       !.cstruct.cr_quantized.a = Flat(q[3], st.cstruct.num_blocks_y)]

\* Lines 102-117: the quantized arrays.
compress_quantize(st, params) ==
    IF st.done THEN st
    ELSE compress_quantize_got(
             st, Eager([c \in 1..3 |-> QuantTiles(st, params, c)]))

\* Lines 119-121: the planes and the tile buffers are released.
compress_release(st) ==
    IF st.done THEN st
    ELSE [st EXCEPT !.heap = Frees(@, st.pl \o st.tb)]

\* What the caller gets.
compress_return(st) ==
    [ret |-> st.ret, cptr |-> st.cptr, cstruct |-> st.cstruct,
     heap |-> st.heap, trap |-> st.trap, trace |-> st.trace]

compress_body(image, params, a1, pf) ==
    compress_return(
     compress_release(
      compress_quantize(
       compress_dct(
        compress_extract(
         compress_convert(
          compress_planes(
           compress_arrays(compress_fields(image, params, a1), pf),
           image, pf),
          image, pf),
         image, pf),
        params, pf),
       params)))

compress_struct_got(image, params, cstruct, heap, a1, pf) ==
    IF a1.p = 0
    THEN [ret |-> JPEG_ERROR_ALLOCATION_FAILED, cptr |-> 0, cstruct |-> cstruct,
          heap |-> heap, trap |-> FALSE, trace |-> NoTrace]
    ELSE compress_body(image, params, a1, pf)

\* jpeg_compress with its two argument checks in the other order.
jpeg_compress_dimensions_first(image, params, compressed_null, cptr, cstruct, heap, pf) ==
    IF image.width <= 0 \/ image.height <= 0
    THEN [ret |-> JPEG_ERROR_INVALID_DIMENSIONS, cptr |-> cptr,
          cstruct |-> cstruct, heap |-> heap, trap |-> FALSE, trace |-> NoTrace]
    ELSE IF image.null \/ params.null \/ compressed_null
    THEN [ret |-> JPEG_ERROR_NULL_POINTER, cptr |-> cptr, cstruct |-> cstruct,
          heap |-> heap, trap |-> FALSE, trace |-> NoTrace]
    ELSE compress_struct_got(image, params, cstruct, heap,
                             Calloc(heap, 1, 1, pf), pf)

\* jpeg_error_t jpeg_compress(image, params, compressed).  image and params
\* carry a null flag; compressed_null says the out pointer is null; cptr and
\* cstruct are the caller's *compressed and the struct behind it before the
\* call.
jpeg_compress(image, params, compressed_null, cptr, cstruct, heap, pf) ==
    IF image.null \/ params.null \/ compressed_null
    THEN [ret |-> JPEG_ERROR_NULL_POINTER, cptr |-> cptr, cstruct |-> cstruct,
          heap |-> heap, trap |-> FALSE, trace |-> NoTrace]
    ELSE IF image.width <= 0 \/ image.height <= 0
    THEN [ret |-> JPEG_ERROR_INVALID_DIMENSIONS, cptr |-> cptr,
          cstruct |-> cstruct, heap |-> heap, trap |-> FALSE, trace |-> NoTrace]
    ELSE compress_struct_got(image, params, cstruct, heap,
                             Calloc(heap, 1, 1, pf), pf)

(***************************************************************************)
(* codec.c: jpeg_decompress, likewise the composition of its stages.  The  *)
(* frame: ret, the caller's *image (iptr), the struct behind it (istruct), *)
(* the heap, done, trap, the trace, and the locals: the tile buffer        *)
(* pointers (tb) and buffers (blks), the plane pointers (pl) and planes    *)
(* (ch).                                                                   *)
(***************************************************************************)
\* Whether loading elements 0..n-1 through buffer field b is invalid: a null
\* or released pointer, or fewer than n elements behind it.
BadLoad(h, b, n) ==
    n > 0 /\ (b.p = 0 \/ ~h[b.p].live \/ (n - 1) \notin DOMAIN b.a)

decompress_image_got(c, a1, a2, size) ==
    [ret |-> IF a2.p = 0 THEN JPEG_ERROR_ALLOCATION_FAILED ELSE JPEG_SUCCESS,
     done |-> a2.p = 0, trap |-> FALSE,
     iptr |-> a1.p,
     istruct |-> [ZeroImage EXCEPT !.width = c.width,
                                   !.height = c.height,
                                   !.colorspace = JPEG_COLORSPACE_RGB,
                                   !.data = NewBuf(a2.p, size)],
     heap |-> IF a2.p = 0 THEN Free(a2.heap, a1.p) ELSE a2.heap,
     trace |-> [NoTrace EXCEPT !.zero_alloc = (size = 0)],
     tb |-> <<>>, blks |-> <<>>, pl |-> <<>>, ch |-> <<>>]

\* Lines 128-140: the image struct (a1 is its allocation), its fields and
\* its data buffer (allocation call 2).
decompress_image(c, a1, pf) ==
    decompress_image_got(c, a1,
                         Calloc(a1.heap, 2, c.width * c.height * 3, pf),
                         c.width * c.height * 3)

\* Lines 142-144: the tables.
decompress_tables(st, c) ==
    IF st.done THEN st
    ELSE [st EXCEPT
            !.trace.quant_luma = scale_quant_table(Q50_LUMA, c.quality_factor),
            !.trace.quant_chroma = scale_quant_table(Q50_CHROMA, c.quality_factor)]

decompress_buffers_got(st, c, a) ==
    IF \E i \in 1..3 : a.ps[i] = 0
    THEN [st EXCEPT !.done = TRUE, !.ret = JPEG_ERROR_ALLOCATION_FAILED,
                    !.trace.zero_alloc = @ \/ c.num_blocks_y * 64 = 0,
                    !.heap = jpeg_free_image(Frees(a.heap, a.ps),
                                             st.iptr, st.istruct)]
    ELSE [st EXCEPT !.heap = a.heap, !.tb = a.ps,
                    !.trace.zero_alloc = @ \/ c.num_blocks_y * 64 = 0]

\* Lines 153-162: the three tile buffers (allocation calls 3..5).
decompress_buffers(st, c, pf) ==
    IF st.done THEN st
    ELSE decompress_buffers_got(
             st, c,
             Callocs(st.heap, 3, <<c.num_blocks_y * 64, c.num_blocks_y * 64,
                                   c.num_blocks_y * 64>>, pf))

\* The tile buffer of one channel after lines 164-188: the memcpy of the
\* identity method, or dequantize and idct_func tile by tile.  q is the
\* quantized array as the loads see it.
InverseTiles(c, q, table, g) ==
    IF c.dct_method = JPEG_DCT_IDENTITY
    THEN Eager([i \in 0..(c.num_blocks_y * 64 - 1) |-> Rd(q, i, g)])
    ELSE Flat(Eager([b \in 0..(c.num_blocks_y - 1) |->
                       idct_func(c.dct_method, dequantize(Tile(q, b, g), table))]),
              c.num_blocks_y)

\* The raw array of a channel where the loop takes the quantized one.
CoeffsOf(c, ch) ==
    IF ch = 1 THEN c.y_coeffs
    ELSE IF ch = 2 THEN c.cb_coeffs
    ELSE c.cr_coeffs

QuantizedOf(c, ch) ==
    IF ch = 1 THEN c.y_quantized
    ELSE IF ch = 2 THEN c.cb_quantized
    ELSE c.cr_quantized

decompress_tiles_got(st, c, invalid, pf) ==
    IF invalid /\ pf.trap
    THEN [st EXCEPT !.done = TRUE, !.trap = TRUE, !.trace.invalid_load = TRUE,
                    !.trace.q_loads = c.num_blocks_y * 64]
    ELSE [st EXCEPT
            !.trace.invalid_load = invalid,
            !.trace.q_loads = IF c.num_blocks_y > 0 THEN c.num_blocks_y * 64
                              ELSE 0,
            !.blks = Eager([ch \in 1..3 |->
                        InverseTiles(c, QuantizedOf(c, ch).a,
                                     IF ch = 1 THEN st.trace.quant_luma
                                     ELSE st.trace.quant_chroma,
                                     pf.g)])]

\* Lines 164-188: dequantization and inverse transform of every tile.
decompress_tiles(st, c, pf) ==
    IF st.done THEN st
    ELSE decompress_tiles_got(
             st, c,
             \E ch \in 1..3 :
                 BadLoad(st.heap, QuantizedOf(c, ch), c.num_blocks_y * 64),
             pf)

decompress_planes_got(st, a) ==
    IF \E i \in 1..3 : a.ps[i] = 0
    THEN [st EXCEPT !.done = TRUE, !.ret = JPEG_ERROR_ALLOCATION_FAILED,
                    !.iptr = 0,
                    !.trace.zero_alloc =
                        @ \/ st.istruct.width * st.istruct.height = 0,
                    !.heap = jpeg_free_image(Frees(a.heap, a.ps \o st.tb),
                                             st.iptr, st.istruct)]
    ELSE [st EXCEPT !.heap = a.heap, !.pl = a.ps,
                    !.trace.zero_alloc =
                        @ \/ st.istruct.width * st.istruct.height = 0]

\* Lines 190-202: the three planes (allocation calls 6..8).
decompress_planes(st, pf) ==
    IF st.done THEN st
    ELSE decompress_planes_got(
             st, Callocs(st.heap, 6,
                         <<st.istruct.width * st.istruct.height,
                           st.istruct.width * st.istruct.height,
                           st.istruct.width * st.istruct.height>>, pf))

\* Whether carrying out the stores ws from a tile buffer into a plane of n
\* elements loads outside the one or stores outside the other.
BadStores(ws, blocks, n) ==
    \/ \E i \in LoadIdx(ws) : i \notin DOMAIN blocks
    \/ \E i \in StoreIdx(ws) : i \notin 0..(n - 1)

decompress_reconstruct_got(st, c, invalid, pf) ==
    IF invalid /\ pf.trap
    THEN [st EXCEPT !.done = TRUE, !.trap = TRUE, !.trace.invalid_load = TRUE]
    ELSE [st EXCEPT
            !.trace.invalid_load = @ \/ invalid,
            !.trace.y_blks = st.blks[1],
            !.trace.cb_blks = st.blks[2],
            !.trace.cr_blks = st.blks[3],
            !.ch = Eager([ch \in 1..3 |->
                      reconstruct_channel(
                          st.blks[ch], c.num_blocks_y,
                          st.istruct.width, st.istruct.height,
                          Zeros(st.istruct.width * st.istruct.height), pf.g)])]

\* Lines 204-206: the three reconstruct_channel calls.
decompress_reconstruct(st, c, pf) ==
    IF st.done THEN st
    ELSE decompress_reconstruct_got(
             st, c,
             BadStores(reconstruct_stores(st.istruct.width, st.istruct.height),
                       st.blks[1], st.istruct.width * st.istruct.height),
             pf)

\* The conversion writing one byte per pixel, the clamped luma, as for a
\* grayscale raster.
decompress_convert_luma_only(st) ==
    IF st.done THEN st
    ELSE [st EXCEPT !.istruct.data.a =
            Eager([i \in 0..(st.istruct.width * st.istruct.height - 1) |->
                     clamp255(st.ch[1][i] + 128)])]

\* Line 209: the planes converted into img->data.
decompress_convert(st) ==
    IF st.done THEN st
    ELSE [st EXCEPT !.istruct.data.a =
            ycbcr_to_rgb_batch(st.ch[1], st.ch[2], st.ch[3],
                               st.istruct.width * st.istruct.height)]

\* Lines 211-213: the planes and the tile buffers are released.
decompress_release(st) ==
    IF st.done THEN st
    ELSE [st EXCEPT !.heap = Frees(@, st.pl \o st.tb)]

\* What the caller gets.
decompress_return(st) ==
    [ret |-> st.ret, iptr |-> st.iptr, istruct |-> st.istruct,
     heap |-> st.heap, trap |-> st.trap, trace |-> st.trace]

decompress_body(c, a1, pf) ==
    decompress_return(
     decompress_release(
      decompress_convert(
       decompress_reconstruct(
        decompress_planes(
         decompress_tiles(
          decompress_buffers(
           decompress_tables(decompress_image(c, a1, pf), c),
           c, pf),
          c, pf),
         pf),
        c, pf))))

decompress_struct_got(c, istruct, heap, a1, pf) ==
    IF a1.p = 0
    THEN [ret |-> JPEG_ERROR_ALLOCATION_FAILED, iptr |-> 0, istruct |-> istruct,
          heap |-> heap, trap |-> FALSE, trace |-> NoTrace]
    ELSE decompress_body(c, a1, pf)

\* jpeg_error_t jpeg_decompress(compressed, image).  compressed is the
\* struct's address and c its contents; image_null says the out pointer is
\* null; iptr and istruct are the caller's *image and the struct behind it
\* before the call.
jpeg_decompress(compressed, c, image_null, iptr, istruct, heap, pf) ==
    IF compressed = 0 \/ image_null
    THEN [ret |-> JPEG_ERROR_NULL_POINTER, iptr |-> iptr, istruct |-> istruct,
          heap |-> heap, trap |-> FALSE, trace |-> NoTrace]
    ELSE decompress_struct_got(c, istruct, heap, Calloc(heap, 1, 1, pf), pf)

(***************************************************************************)
(* codec.c: jpeg_version and jpeg_error_string, and the storage with       *)
(* static duration that each public operation loads from and stores to.    *)
(***************************************************************************)
JPEG_VERSION_MAJOR == 1
JPEG_VERSION_MINOR == 0
JPEG_VERSION_PATCH == 0

\* %d of a number below 10.
Digit(n) == <<"0", "1", "2", "3", "4", "5", "6", "7", "8", "9">>[n + 1]

\* static char version[32]: zero-initialised.
version_initial == [i \in 0..31 |-> "NUL"]

\* The characters snprintf(version, sizeof(version), "%d.%d.%d", ...) stores
\* from version[0] on, the terminating null character last.
version_chars ==
    <<Digit(JPEG_VERSION_MAJOR), ".", Digit(JPEG_VERSION_MINOR), ".",
      Digit(JPEG_VERSION_PATCH), "NUL">>

\* const char* jpeg_error_string(jpeg_error_t error)
jpeg_error_string(error) ==
    CASE error = JPEG_SUCCESS                  -> "Success"
      [] error = JPEG_ERROR_NULL_POINTER       -> "Null pointer"
      [] error = JPEG_ERROR_INVALID_DIMENSIONS -> "Invalid dimensions"
      [] error = JPEG_ERROR_ALLOCATION_FAILED  -> "Allocation failed"
      [] error = JPEG_ERROR_INVALID_METHOD     -> "Invalid DCT method"
      [] OTHER                                 -> "Unknown error"

PublicOps ==
    {"jpeg_compress", "jpeg_decompress", "jpeg_free_compressed",
     "jpeg_free_image", "jpeg_version", "jpeg_error_string"}

\* The objects with static duration an operation stores to.
StaticWrites(op) == IF op = "jpeg_version" THEN {"version"} ELSE {}

\* The objects with static duration an operation loads from: the tables of
\* the quantizer and of the matrix transform.
StaticReads(op) ==
    IF op \in {"jpeg_compress", "jpeg_decompress"}
    THEN {"Q50_LUMA", "Q50_CHROMA", "C", "NORM"}
    ELSE {}

(***************************************************************************)
(* test_jpeg.c: calc_psnr_gray.  The loop's sum of squared differences     *)
(* over pixels 0..i, each between the original gray byte and the mean of   *)
(* the reconstructed R, G and B.                                           *)
(***************************************************************************)
RECURSIVE psnr_gray_sum(_, _, _)
psnr_gray_sum(orig, recon, i) ==
    IF i < 0 THEN 0
    ELSE psnr_gray_sum(orig, recon, i - 1)
         + (orig.data[i] - c_div(recon.data.a[i * 3] + recon.data.a[i * 3 + 1]
                                   + recon.data.a[i * 3 + 2], 3)) ^ 2

\* Whether calc_psnr_gray returns 100.0: both images given, the same size,
\* and mse < 1e-10, which a sum of integer squares over fewer than 10^10
\* pixels satisfies exactly when it is 0.
calc_psnr_gray_is_100(orig, recon_ptr, recon) ==
    /\ ~orig.null
    /\ recon_ptr # 0
    /\ orig.width = recon.width
    /\ orig.height = recon.height
    /\ psnr_gray_sum(orig, recon, orig.width * orig.height - 1) = 0

(***************************************************************************)
(* metrics.c.  A double result is held exactly: calc_bitrate's as the      *)
(* fraction num / den of its two operands, which are whole numbers;        *)
(* calc_psnr's as the branch taken together with the sum of squares and    *)
(* the byte count that determine it.                                       *)
(***************************************************************************)
zigzag_order == Arr(<<
     0,  1,  8, 16,  9,  2,  3, 10,
    17, 24, 32, 25, 18, 11,  4,  5,
    12, 19, 26, 33, 40, 48, 41, 34,
    27, 20, 13,  6,  7, 14, 21, 28,
    35, 42, 49, 56, 57, 50, 43, 36,
    29, 22, 15, 23, 30, 37, 44, 51,
    58, 59, 52, 45, 38, 31, 39, 46,
    53, 60, 61, 54, 47, 55, 62, 63 >>)

\* The scan of lines 49-51 made in natural index order.
RECURSIVE last_nz_natural(_, _)
last_nz_natural(block, i) ==
    IF i < 0 THEN -1
    ELSE IF block[i] # 0 THEN i
    ELSE last_nz_natural(block, i - 1)

\* Lines 48-51: last_nz after the scan from position i downwards.
RECURSIVE last_nz(_, _)
last_nz(block, i) ==
    IF i < 0 THEN -1
    ELSE IF block[zigzag_order[i]] # 0 THEN i
    ELSE last_nz(block, i - 1)

\* Lines 52-53: what one block adds to total_bits.
block_bits(block) ==
    IF last_nz(block, 63) >= 0 THEN (last_nz(block, 63) + 1) * 8 ELSE 0

\* total_bits += ... over blocks 0 .. b, bits[t] being what block t adds.
RECURSIVE bits_sum(_, _)
bits_sum(bits, b) ==
    IF b < 0 THEN 0 ELSE bits_sum(bits, b - 1) + bits[b]

\* Lines 46-55 for one channel: the bits of blocks 0 .. b.
channel_bits(channel, b) ==
    Only({bits_sum(bits, b) :
            bits \in {Eager([t \in 0..b |-> block_bits(Tile(channel, t, 0))])}})

\* total_blocks after the loops.
bitrate_blocks(c) ==
    (IF c.num_blocks_y > 0 THEN c.num_blocks_y ELSE 0)
        + 2 * (IF c.num_blocks_chroma > 0 THEN c.num_blocks_chroma ELSE 0)

\* double calc_bitrate(const jpeg_compressed_t *comp): comp is the struct's
\* address and c its contents.
calc_bitrate(comp, c) ==
    IF comp = 0 THEN [num |-> 0, den |-> 1]
    ELSE IF bitrate_blocks(c) * 64 > 0
    THEN [num |-> channel_bits(c.y_quantized.a, c.num_blocks_y - 1)
                    + channel_bits(c.cb_quantized.a, c.num_blocks_chroma - 1)
                    + channel_bits(c.cr_quantized.a, c.num_blocks_chroma - 1),
          den |-> bitrate_blocks(c) * 64]
    ELSE [num |-> 0, den |-> 1]

\* The loop of calc_psnr accumulating the differences themselves.
RECURSIVE psnr_sum_unsquared(_, _, _)
psnr_sum_unsquared(orig, recon, i) ==
    IF i < 0 THEN 0
    ELSE psnr_sum_unsquared(orig, recon, i - 1) + (orig[i] - recon[i])

\* Lines 21-24: mse after bytes 0 .. i, a sum of squares of whole numbers.
RECURSIVE psnr_sum(_, _, _)
psnr_sum(orig, recon, i) ==
    IF i < 0 THEN 0
    ELSE psnr_sum(orig, recon, i - 1) + (orig[i] - recon[i]) * (orig[i] - recon[i])

\* Line 27: mse < 1e-10 for mse = sum / total, total > 0, as the comparison
\* of sum * 10^10 with total.
psnr_below_threshold(sum, total) ==
    WIsNeg(WSub(WMul(W(sum), WMul(W(100000), W(100000))), W(total)))

\* Lines 25-28 for the accumulated sum: 0 / 0 is a NaN, which compares false
\* and comes back out of log10; a negative total makes mse zero or negative.
psnr_result(sum, total) ==
    IF total = 0 THEN [kind |-> "nan", sum |-> sum, total |-> total]
    ELSE IF total < 0 \/ psnr_below_threshold(sum, total)
    THEN [kind |-> "sentinel", sum |-> sum, total |-> total]
    ELSE [kind |-> "log", sum |-> sum, total |-> total]

\* double calc_psnr(orig, recon, width, height): kind "sentinel" is the
\* return of 100.0, kind "log" that of 10 * log10(255 * 255 * total / sum).
calc_psnr(orig, recon, width, height) ==
    psnr_result(psnr_sum(orig, recon, width * height * 3 - 1), width * height * 3)

(***************************************************************************)
(* webserver.c: pack_int16.  dst[i] = (int16_t)src[i] keeps the low 16     *)
(* bits of src[i] as a two's complement value.                             *)
(***************************************************************************)
int16_cast(v) == ((v + 2 ^ 15) % 2 ^ 16) - 2 ^ 15

\* pack_int16(src, count): the count values of the buffer returned.
pack_int16(src, count) ==
    Eager([i \in 0..(count - 1) |-> int16_cast(src[i])])

(***************************************************************************)
(* The caller.  One scenario is one pass through the API as the example    *)
(* and test programs make it: jpeg_compress, jpeg_decompress,              *)
(* jpeg_free_image, jpeg_free_compressed; between the first two the caller *)
(* may hand-edit the compressed struct, which it owns.                     *)
(***************************************************************************)
VARIABLES
    pc,           \* where the caller is
    original,     \* the jpeg_image_t passed to jpeg_compress (or null)
    prm,          \* the jpeg_params_t passed to jpeg_compress (or null)
    out_null,     \* whether the out pointer passed to jpeg_compress is null
    comp,         \* the caller's jpeg_compressed_t *comp
    comp_obj,     \* the struct comp points to
    err,          \* what jpeg_compress returned
    trace_c,      \* trace of the jpeg_compress call
    edited,       \* which hand edit the caller made to the struct
    recon_null,   \* whether the out pointer passed to jpeg_decompress is null
    recon,        \* the caller's jpeg_image_t *reconstructed
    recon_obj,    \* the struct recon points to
    err_d,        \* what jpeg_decompress returned
    trace_d,      \* trace of the jpeg_decompress call
    heap,         \* the allocator's blocks
    refuse,       \* <<n, m>>: the allocation call refused in each API call
    fin,          \* input of a library function applied on its own
    fout          \* its outputs

vars == <<pc, original, prm, out_null, comp, comp_obj, err, trace_c, edited,
          recon_null, recon, recon_obj, err_d, trace_d, heap, refuse, fin, fout>>

apivars == <<original, prm, out_null, comp, comp_obj, err, trace_c, edited,
             recon_null, recon, recon_obj, err_d, trace_d, heap, refuse>>

\* --- inputs ---------------------------------------------------------------
NullImage ==
    [null |-> TRUE, width |-> 0, height |-> 0, colorspace |-> 0,
     data_null |-> TRUE, data |-> <<>>]

\* Byte ch of pixel (x, y) of the test pattern pat = <<a, b, c, d>>.
Pixel(pat, x, y, ch) == (pat[1] * x + pat[2] * y + pat[3] + pat[4] * ch) % 256

\* A caller's image: width x height in colour space cs, its buffer absent or
\* filled with pattern pat.
MkImage(w, h, cs, data_null, pat) ==
    LET nch    == IF cs = JPEG_COLORSPACE_RGB THEN 3 ELSE 1
        nbytes == IF w > 0 /\ h > 0 THEN w * h * nch ELSE 0
    IN  [null |-> FALSE, width |-> w, height |-> h, colorspace |-> cs,
         data_null |-> data_null,
         data |-> IF data_null THEN <<>>
                  ELSE Eager([i \in 0..(nbytes - 1) |->
                                Pixel(pat, (i \div nch) % w, (i \div nch) \div w,
                                      i % nch)])]

NullParams ==
    [null |-> TRUE, quality_factor |-> 0, dct_method |-> 0,
     use_standard_tables |-> 0, skip_quantization |-> 0]

MkParams(k, m, skip) ==
    [null |-> FALSE, quality_factor |-> k, dct_method |-> m,
     use_standard_tables |-> 1, skip_quantization |-> skip]

Methods == {JPEG_DCT_LOEFFLER, JPEG_DCT_MATRIX, JPEG_DCT_APPROX, JPEG_DCT_IDENTITY}

ColorSpaces == {JPEG_COLORSPACE_RGB, JPEG_COLORSPACE_GRAYSCALE}

\* --- the platform ---------------------------------------------------------
\* The values an invalid load may yield when it does not trap.
Garbage == {0, 77}

Platform(n) == [refuse |-> n, zero_null |-> FALSE, trap |-> TRUE, g |-> 0]

\* The platforms that can tell themselves apart on a call whose trace under
\* Platform(n) is tr: the allocator's answer to a zero-size request matters
\* only to a call that made one, the effect of an invalid load only to a call
\* that made one.
Platforms(n, tr) ==
    {[refuse |-> n, zero_null |-> z, trap |-> t, g |-> g] :
        z \in (IF tr.zero_alloc THEN BOOLEAN ELSE {FALSE}),
        t \in (IF tr.invalid_load THEN BOOLEAN ELSE {TRUE}),
        g \in (IF tr.invalid_load THEN Garbage ELSE {0})}

\* err and err_d before the call is made.
NotCalled == JPEG_SUCCESS + 1

\* --- actions --------------------------------------------------------------
\* A call's result is bound by a quantifier over the singleton of it, so that
\* the call is evaluated once for all the assignments made from it.
\* err = jpeg_compress(original, &prm, &comp)
Compress ==
    /\ pc = "start"
    /\ \E r0 \in {jpeg_compress(original, prm, out_null, comp, comp_obj, heap,
                                 Platform(refuse[1]))} :
       \E pf \in Platforms(refuse[1], r0.trace) :
       \E r \in {IF pf = Platform(refuse[1]) THEN r0
                 ELSE jpeg_compress(original, prm, out_null, comp, comp_obj,
                                    heap, pf)} :
         IF r.trap
         THEN /\ pc' = "crashed"
              /\ trace_c' = r.trace
              /\ UNCHANGED <<comp, comp_obj, err, heap>>
         ELSE /\ pc' = "compressed"
              /\ comp' = r.cptr
              /\ comp_obj' = r.cstruct
              /\ err' = r.ret
              /\ trace_c' = r.trace
              /\ heap' = r.heap
    /\ UNCHANGED <<original, prm, out_null, edited, recon_null, recon,
                   recon_obj, err_d, trace_d, refuse, fin, fout>>

\* The hand edits a caller can make to the struct it got from jpeg_compress.
Edits == {"width0", "negative", "null_quantized", "more_blocks", "fewer_blocks"}

Edit(c, kind) ==
    CASE kind = "width0"         -> [c EXCEPT !.width = 0]
      [] kind = "negative"       -> [c EXCEPT !.width = -1, !.height = -1]
      [] kind = "null_quantized" -> [c EXCEPT !.y_quantized = NoBuf]
      [] kind = "more_blocks"    -> [c EXCEPT !.num_blocks_y = @ + 1]
      [] kind = "fewer_blocks"   -> [c EXCEPT !.num_blocks_y = @ - 1]

CallerEdit ==
    /\ pc = "compressed"
    /\ err = JPEG_SUCCESS
    /\ edited = "none"
    /\ \E kind \in Edits :
         /\ edited' = kind
         /\ comp_obj' = Edit(comp_obj, kind)
    /\ UNCHANGED <<pc, original, prm, out_null, comp, err, trace_c, recon_null,
                   recon, recon_obj, err_d, trace_d, heap, refuse, fin, fout>>

\* capture_handler after a compression that succeeded: free(comp->y_coeffs);
\* comp->y_coeffs = NULL; and likewise cb_coeffs and cr_coeffs.
FreeRawCoefficients ==
    /\ pc = "compressed"
    /\ err = JPEG_SUCCESS
    /\ edited = "none"
    /\ edited' = "raw_freed"
    /\ heap' = Frees(heap, <<comp_obj.y_coeffs.p, comp_obj.cb_coeffs.p,
                             comp_obj.cr_coeffs.p>>)
    /\ comp_obj' = [comp_obj EXCEPT !.y_coeffs = NoBuf, !.cb_coeffs = NoBuf,
                                    !.cr_coeffs = NoBuf]
    /\ UNCHANGED <<pc, original, prm, out_null, comp, err, trace_c, recon_null,
                   recon, recon_obj, err_d, trace_d, refuse, fin, fout>>

\* err_d = jpeg_decompress(comp, &reconstructed), made with a handle that
\* jpeg_compress returned with success or with a null handle.
Decompress ==
    /\ pc = "compressed"
    /\ comp = 0 \/ err = JPEG_SUCCESS
    /\ \E rn \in BOOLEAN :
       \E r0 \in {jpeg_decompress(comp, comp_obj, rn, recon, recon_obj, heap,
                                   Platform(refuse[2]))} :
       \E pf \in Platforms(refuse[2], r0.trace) :
       \E r \in {IF pf = Platform(refuse[2]) THEN r0
                 ELSE jpeg_decompress(comp, comp_obj, rn, recon, recon_obj,
                                      heap, pf)} :
         /\ recon_null' = rn
         /\ IF r.trap
            THEN /\ pc' = "crashed"
                 /\ trace_d' = r.trace
                 /\ UNCHANGED <<recon, recon_obj, err_d, heap>>
            ELSE /\ pc' = "decompressed"
                 /\ recon' = r.iptr
                 /\ recon_obj' = r.istruct
                 /\ err_d' = r.ret
                 /\ trace_d' = r.trace
                 /\ heap' = r.heap
    /\ UNCHANGED <<original, prm, out_null, comp, comp_obj, err, trace_c, edited,
                   refuse, fin, fout>>

\* jpeg_free_image(reconstructed)
FreeImage ==
    /\ pc = "decompressed"
    /\ pc' = "image_freed"
    /\ heap' = jpeg_free_image(heap, recon, recon_obj)
    /\ UNCHANGED <<original, prm, out_null, comp, comp_obj, err, trace_c, edited,
                   recon_null, recon, recon_obj, err_d, trace_d, refuse, fin, fout>>

\* jpeg_free_compressed(comp)
FreeCompressed ==
    /\ pc \in {"compressed", "image_freed"}
    /\ pc' = "done"
    /\ heap' = jpeg_free_compressed(heap, comp, comp_obj)
    /\ UNCHANGED <<original, prm, out_null, comp, comp_obj, err, trace_c, edited,
                   recon_null, recon, recon_obj, err_d, trace_d, refuse, fin, fout>>

\* The API as a caller that leaves the struct alone uses it.
NextPlain == Compress \/ Decompress \/ FreeImage \/ FreeCompressed

\* The API as used by a caller that may also edit the struct.
NextEdit == Compress \/ CallerEdit \/ Decompress \/ FreeImage \/ FreeCompressed

\* --- initial states -------------------------------------------------------
\* The state after the caller has set up its arguments: comp is null or
\* still holds an earlier handle (block 1 of the heap).
InitApi(images, paramsets, outs, handles) ==
    /\ pc = "start"
    /\ original \in images
    /\ prm \in paramsets
    /\ out_null \in outs
    /\ comp \in handles
    /\ comp_obj = ZeroCompressed
    /\ err = NotCalled
    /\ trace_c = NoTrace
    /\ edited = "none"
    /\ recon_null = FALSE
    /\ recon = 0
    /\ recon_obj = ZeroImage
    /\ err_d = NotCalled
    /\ trace_d = NoTrace
    /\ heap = IF comp = 0 THEN <<>> ELSE <<[live |-> TRUE, frees |-> 0]>>
    /\ refuse = <<0, 0>>
    /\ fin = <<>>
    /\ fout = <<>>

(***************************************************************************)
(* Spec: argument validation and the plain life cycle.  Every combination  *)
(* of null and non-null arguments, widths and heights from -1 up to        *)
(* MaxArgDim, both colour spaces, the pixel buffer present or absent,      *)
(* with one parameter set per method; and every parameter set on one       *)
(* valid image.                                                            *)
(***************************************************************************)
MaxArgDim == 2

ArgPattern == <<53, 244, 201, 85>>

ArgImages ==
    {NullImage} \cup
    {MkImage(w, h, cs, dn, ArgPattern) :
        w \in (-1)..MaxArgDim, h \in (-1)..MaxArgDim,
        cs \in ColorSpaces, dn \in BOOLEAN}

ArgParams ==
    {NullParams} \cup {MkParams(KUnit, m, 0) : m \in Methods}

AllParams ==
    {MkParams(k, m, skip) : k \in {KUnit, 2 * KUnit}, m \in Methods,
                            skip \in {0, 1}}

Init ==
    \/ InitApi(ArgImages, ArgParams, BOOLEAN, {0, 1})
    \/ InitApi({MkImage(MaxArgDim, 1, JPEG_COLORSPACE_RGB, FALSE, ArgPattern)},
               AllParams, {FALSE}, {0})

Spec == Init /\ [][NextPlain]_vars

(***************************************************************************)
(* SpecEdit: the caller edits the struct before decompressing it.          *)
(***************************************************************************)
MaxEditDim == 2

EditImages ==
    {MkImage(w, h, cs, FALSE, ArgPattern) :
        w \in 1..MaxEditDim, h \in 1..MaxEditDim, cs \in ColorSpaces}

InitEdit ==
    InitApi(EditImages, {MkParams(KUnit, m, 0) : m \in Methods}, {FALSE}, {0})

SpecEdit == InitEdit /\ [][NextEdit]_vars

(***************************************************************************)
(* SpecGray: grayscale images of every size up to MaxGrayDim through the   *)
(* Identity method.                                                        *)
(***************************************************************************)
MaxGrayDim == 9

GrayPatterns == {<<1, 16, 0, 0>>, <<53, 244, 201, 0>>, <<0, 0, 255, 0>>}

GrayImages ==
    {MkImage(w, h, JPEG_COLORSPACE_GRAYSCALE, FALSE, pat) :
        w \in 1..MaxGrayDim, h \in 1..MaxGrayDim, pat \in GrayPatterns}

InitGray ==
    InitApi(GrayImages,
            {MkParams(KUnit, JPEG_DCT_IDENTITY, skip) : skip \in {0, 1}},
            {FALSE}, {0})

SpecGray == InitGray /\ [][NextPlain]_vars

(***************************************************************************)
(* SpecRamp: one-tile grayscale ramps data[y*8+x] = (a*x + b*y) mod 256    *)
(* through the Fast and the Matrix method at k = 1, 2, 4.                  *)
(***************************************************************************)
RampPatterns == {<<a, b, 0, 0>> : a \in {0, 53}, b \in {0, 244}}

RampImages ==
    {MkImage(8, 8, JPEG_COLORSPACE_GRAYSCALE, FALSE, pat) : pat \in RampPatterns}

InitRamp ==
    InitApi(RampImages,
            {MkParams(k, m, 0) : k \in {KUnit, 2 * KUnit, 4 * KUnit},
                                 m \in {JPEG_DCT_LOEFFLER, JPEG_DCT_MATRIX}},
            {FALSE}, {0})

SpecRamp == InitRamp /\ [][NextPlain]_vars

(***************************************************************************)
(* Library functions applied on their own.  The API variables stay as the  *)
(* caller left them before any call; fin holds the arguments and fout the  *)
(* outputs.                                                                *)
(***************************************************************************)
InitPure(start, inputs, outputs) ==
    /\ pc = start
    /\ original = NullImage
    /\ prm = NullParams
    /\ out_null = FALSE
    /\ comp = 0
    /\ comp_obj = ZeroCompressed
    /\ err = NotCalled
    /\ trace_c = NoTrace
    /\ edited = "none"
    /\ recon_null = FALSE
    /\ recon = 0
    /\ recon_obj = ZeroImage
    /\ err_d = NotCalled
    /\ trace_d = NoTrace
    /\ heap = <<>>
    /\ refuse = <<0, 0>>
    /\ fin \in inputs
    /\ fout = outputs

(***************************************************************************)
(* SpecQuant: quantize and quantize_fast on the same block and table.  A   *)
(* block holds 64 consecutive coefficient values from c0 on, the starts    *)
(* chosen to cover both ends of the range -2^20 .. 2^20 and the values     *)
(* around zero; a table holds one step q in all its entries, q from 1 to   *)
(* MaxQ and the largest steps 99 and 255 of the standard tables' range.    *)
(***************************************************************************)
MaxQ == 16

MaxCoeff == 2 ^ 20

QuantBlocks ==
    {Eager([i \in Idx64 |-> c0 + i]) :
        c0 \in {-MaxCoeff, -64, 0, MaxCoeff - 63}}

QuantTables ==
    {Eager([i \in Idx64 |-> q]) : q \in (1..MaxQ) \cup {99, 255}}

NoBlock == <<>>

InitQuant ==
    InitPure("quant",
             {[dct_block |-> b, quant_table |-> t] :
                 b \in QuantBlocks, t \in QuantTables},
             [division |-> NoBlock, reciprocal |-> NoBlock])

\* quantize(fin.dct_block, fin.quant_table, division)
Quantize ==
    /\ pc = "quant"
    /\ fout.division = NoBlock
    /\ fout' = [fout EXCEPT !.division = quantize(fin.dct_block, fin.quant_table)]
    /\ UNCHANGED <<pc, fin>>
    /\ UNCHANGED apivars

\* compute_reciprocal_table(fin.quant_table, recip);
\* quantize_fast(fin.dct_block, fin.quant_table, recip, reciprocal)
QuantizeFast ==
    /\ pc = "quant"
    /\ fout.reciprocal = NoBlock
    /\ fout' = [fout EXCEPT !.reciprocal =
                    quantize_fast(fin.dct_block, fin.quant_table,
                                  compute_reciprocal_table(fin.quant_table))]
    /\ UNCHANGED <<pc, fin>>
    /\ UNCHANGED apivars

NextQuant == Quantize \/ QuantizeFast

SpecQuant == InitQuant /\ [][NextQuant]_vars

(***************************************************************************)
(* SpecBlocks: extract_blocks on a plane of every width and height up to   *)
(* MaxDim, then reconstruct_channel of its tiles into a fresh plane.  The  *)
(* source plane holds a different non-zero value at every index; the       *)
(* destination plane starts with Untouched everywhere, a value no sample   *)
(* has.                                                                    *)
(***************************************************************************)
MaxDim == 17

Untouched == 0 - 1

Plane(width, height) == Eager([i \in 0..(width * height - 1) |-> i + 1])

InitBlocks ==
    InitPure("plane",
             {[width |-> w, height |-> h, channel |-> Plane(w, h)] :
                 w \in 1..MaxDim, h \in 1..MaxDim},
             [num_blocks |-> 0, blocks |-> <<>>, channel |-> <<>>,
              loads |-> {}, stores |-> {}])

\* extract_blocks(fin.channel, fin.width, fin.height, &blocks, &num_blocks)
ExtractBlocks ==
    /\ pc = "plane"
    /\ pc' = "tiles"
    /\ \E r \in {extract_blocks(fin.channel, fin.width, fin.height, 0)} :
         fout' = [fout EXCEPT !.num_blocks = r.num_blocks,
                              !.blocks = r.blocks,
                              !.loads = LoadIdx(extract_stores(fin.width, fin.height)),
                              !.stores = StoreIdx(extract_stores(fin.width, fin.height))]
    /\ UNCHANGED fin
    /\ UNCHANGED apivars

\* reconstruct_channel(blocks, num_blocks, fin.width, fin.height, channel)
ReconstructChannel ==
    /\ pc = "tiles"
    /\ pc' = "restored"
    /\ fout' = [fout EXCEPT
                  !.channel = reconstruct_channel(
                                  fout.blocks, fout.num_blocks, fin.width, fin.height,
                                  Eager([i \in 0..(fin.width * fin.height - 1) |-> Untouched]),
                                  0),
                  !.loads = LoadIdx(reconstruct_stores(fin.width, fin.height)),
                  !.stores = StoreIdx(reconstruct_stores(fin.width, fin.height))]
    /\ UNCHANGED fin
    /\ UNCHANGED apivars

NextBlocks == ExtractBlocks \/ ReconstructChannel

SpecBlocks == InitBlocks /\ [][NextBlocks]_vars

(***************************************************************************)
(* SpecMethod: every dct_method from -1 up to MaxMethod, the four          *)
(* enumerators and the values on both sides of them, on valid rasters.     *)
(***************************************************************************)
MaxMethod == 5

MethodValues == (-1)..MaxMethod

MethodImages ==
    {MkImage(w, 1, cs, FALSE, ArgPattern) : w \in 1..2, cs \in ColorSpaces}

InitMethod ==
    InitApi(MethodImages, {MkParams(KUnit, m, 0) : m \in MethodValues},
            {FALSE}, {0})

SpecMethod == InitMethod /\ [][NextPlain]_vars

(***************************************************************************)
(* SpecAlloc: the platform refuses one allocation call of one API call.    *)
(* jpeg_compress makes 13 calls in program order: the struct, the six      *)
(* coefficient arrays, the three planes, the tile array of each of the     *)
(* three extract_blocks calls; jpeg_decompress makes 8: the struct, the    *)
(* pixel buffer, the three tile buffers, the three planes.                 *)
(***************************************************************************)
CompressAllocs == 1 + 6 + 3 + 3

DecompressAllocs == 1 + 1 + 3 + 3

Refusals ==
    {<<n, 0>> : n \in 0..CompressAllocs}
        \cup {<<0, m>> : m \in 1..DecompressAllocs}

AllocImages ==
    {MkImage(1, 1, JPEG_COLORSPACE_RGB, FALSE, ArgPattern),
     MkImage(2, 2, JPEG_COLORSPACE_GRAYSCALE, FALSE, ArgPattern)}

AllocParams ==
    {MkParams(KUnit, m, 0) : m \in {JPEG_DCT_LOEFFLER, JPEG_DCT_IDENTITY}}

InitAlloc ==
    /\ pc = "start"
    /\ original \in AllocImages
    /\ prm \in AllocParams
    /\ out_null = FALSE
    /\ comp = 0
    /\ comp_obj = ZeroCompressed
    /\ err = NotCalled
    /\ trace_c = NoTrace
    /\ edited = "none"
    /\ recon_null = FALSE
    /\ recon = 0
    /\ recon_obj = ZeroImage
    /\ err_d = NotCalled
    /\ trace_d = NoTrace
    /\ heap = <<>>
    /\ refuse \in Refusals
    /\ fin = <<>>
    /\ fout = <<>>

SpecAlloc == InitAlloc /\ [][NextPlain]_vars

(***************************************************************************)
(* SpecRange: one-tile rasters whose samples sit at the ends of the byte   *)
(* range, compressed and packed as compressed_handler does.  A grayscale   *)
(* raster holds 255 where the basis function (u, v) of the cosine matrix   *)
(* is positive and 0 where it is negative, or the reverse: the rasters     *)
(* that drive coefficient (u, v) to its largest magnitude.  An RGB raster  *)
(* is flat in one of the eight corner colours.  Every method, with k = 1   *)
(* unquantized and quantized and with k = 8 quantized.                     *)
(***************************************************************************)
RangeFreqs == {0, 1, 7}

SignBytes(u, v, inv) ==
    Eager([i \in Idx64 |->
             IF ((C[u][i % 8] > 0) = (C[v][i \div 8] > 0)) = inv
             THEN 0 ELSE 255])

FlatBytes(r, g, b) ==
    Eager([i \in 0..(3 * 64 - 1) |->
             IF i % 3 = 0 THEN r ELSE IF i % 3 = 1 THEN g ELSE b])

RangeImage(cs, bytes) ==
    [null |-> FALSE, width |-> 8, height |-> 8, colorspace |-> cs,
     data_null |-> FALSE, data |-> bytes]

RangeImages ==
    {RangeImage(JPEG_COLORSPACE_GRAYSCALE, SignBytes(u, v, inv)) :
        u \in RangeFreqs, v \in RangeFreqs, inv \in BOOLEAN}
    \cup {RangeImage(JPEG_COLORSPACE_RGB, FlatBytes(r, g, b)) :
             r \in {0, 255}, g \in {0, 255}, b \in {0, 255}}

RangeParams ==
    {MkParams(KUnit, m, 1) : m \in Methods}
        \cup {MkParams(k, m, 0) : k \in {KUnit, 8 * KUnit}, m \in Methods}

InitRange == InitApi(RangeImages, RangeParams, {FALSE}, {0})

\* y16 = pack_int16(comp->y_quantized, total_coefs), and likewise cb16, cr16.
PackInt16 ==
    /\ pc = "compressed"
    /\ err = JPEG_SUCCESS
    /\ fout = <<>>
    /\ fout' = <<pack_int16(comp_obj.y_quantized.a, comp_obj.num_blocks_y * 64),
                 pack_int16(comp_obj.cb_quantized.a, comp_obj.num_blocks_y * 64),
                 pack_int16(comp_obj.cr_quantized.a, comp_obj.num_blocks_y * 64)>>
    /\ UNCHANGED <<pc, fin>>
    /\ UNCHANGED apivars

NextPack == Compress \/ PackInt16 \/ FreeCompressed

SpecRange == InitRange /\ [][NextPack]_vars

(***************************************************************************)
(* SpecColour: the colour conversions on their own, batched and pixel by   *)
(* pixel, on a buffer of two pixels: a triple and the same triple          *)
(* reversed.  Forward inputs are RGB bytes; inverse inputs are Y, Cb, Cr   *)
(* samples inside and outside the range the forward conversion produces,   *)
(* so that every output saturates for some of them.                        *)
(***************************************************************************)
ColourBytes == {0, 4, 128, 255}

YccSamples == {-300, -128, -3, 0, 127, 300}

Reversed(t) == <<t[3], t[2], t[1]>>

ColourInputs ==
    {[dir |-> "forward", px |-> <<t, Reversed(t)>>] :
        t \in ColourBytes \X ColourBytes \X ColourBytes}
    \cup {[dir |-> "inverse", px |-> <<t, Reversed(t)>>] :
             t \in YccSamples \X YccSamples \X YccSamples}

\* The two pixels as the interleaved buffer and as the three planes.
Interleaved(px) == Eager([i \in 0..5 |-> px[(i \div 3) + 1][(i % 3) + 1]])

PlaneOf(px, ch) == Eager([i \in 0..1 |-> px[i + 1][ch]])

NoPixels == <<>>

InitColour ==
    InitPure("colour", ColourInputs, [batch |-> NoPixels, single |-> NoPixels])

\* rgb_to_ycbcr_batch(rgb, y, cb, cr, 2)
RgbToYcbcrBatch ==
    /\ pc = "colour"
    /\ fin.dir = "forward"
    /\ fout.batch = NoPixels
    /\ \E r \in {rgb_to_ycbcr_batch(Interleaved(fin.px), 2)} :
         fout' = [fout EXCEPT !.batch = <<<<r.y[0], r.cb[0], r.cr[0]>>,
                                          <<r.y[1], r.cb[1], r.cr[1]>>>>]
    /\ UNCHANGED <<pc, fin>>
    /\ UNCHANGED apivars

\* rgb_to_ycbcr(r, g, b, &y, &cb, &cr) for each of the two pixels
RgbToYcbcr ==
    /\ pc = "colour"
    /\ fin.dir = "forward"
    /\ fout.single = NoPixels
    /\ fout' = [fout EXCEPT !.single =
                    <<rgb_to_ycbcr(fin.px[1][1], fin.px[1][2], fin.px[1][3]),
                      rgb_to_ycbcr(fin.px[2][1], fin.px[2][2], fin.px[2][3])>>]
    /\ UNCHANGED <<pc, fin>>
    /\ UNCHANGED apivars

\* ycbcr_to_rgb_batch(y, cb, cr, rgb, 2)
YcbcrToRgbBatch ==
    /\ pc = "colour"
    /\ fin.dir = "inverse"
    /\ fout.batch = NoPixels
    /\ \E r \in {ycbcr_to_rgb_batch(PlaneOf(fin.px, 1), PlaneOf(fin.px, 2),
                                      PlaneOf(fin.px, 3), 2)} :
         fout' = [fout EXCEPT !.batch = <<<<r[0], r[1], r[2]>>,
                                          <<r[3], r[4], r[5]>>>>]
    /\ UNCHANGED <<pc, fin>>
    /\ UNCHANGED apivars

\* ycbcr_to_rgb(y, cb, cr, &r, &g, &b) for each of the two pixels
YcbcrToRgb ==
    /\ pc = "colour"
    /\ fin.dir = "inverse"
    /\ fout.single = NoPixels
    /\ fout' = [fout EXCEPT !.single =
                    <<ycbcr_to_rgb(fin.px[1][1], fin.px[1][2], fin.px[1][3]),
                      ycbcr_to_rgb(fin.px[2][1], fin.px[2][2], fin.px[2][3])>>]
    /\ UNCHANGED <<pc, fin>>
    /\ UNCHANGED apivars

NextColour == RgbToYcbcrBatch \/ RgbToYcbcr \/ YcbcrToRgbBatch \/ YcbcrToRgb

SpecColour == InitColour /\ [][NextColour]_vars

(***************************************************************************)
(* SpecBitrate: calc_bitrate on compressed structs of 1 .. MaxTiles tiles  *)
(* per channel.  For every natural index j the luma channel starts with a  *)
(* tile whose only non-zero element is at j and goes on with dense tiles;  *)
(* Cb is all zero; Cr ends with a tile whose only non-zero element is at   *)
(* j + 1 modulo 64.  Also an all-zero struct, an all-dense struct, and no  *)
(* struct.                                                                 *)
(***************************************************************************)
MaxTiles == 2

SingleTile(j) == Eager([i \in Idx64 |-> IF i = j THEN -5 ELSE 0])

DenseTile == Eager([i \in Idx64 |-> i + 1])

ZeroTile == Eager([i \in Idx64 |-> 0])

\* A compressed struct of n tiles per channel with the given tiles.
TiledStruct(n, y, cb, cr) ==
    [ZeroCompressed EXCEPT !.width = 8 * n, !.height = 8,
                           !.num_blocks_y = n, !.num_blocks_chroma = n,
                           !.y_quantized = Buf(1, Flat(y, n)),
                           !.cb_quantized = Buf(2, Flat(cb, n)),
                           !.cr_quantized = Buf(3, Flat(cr, n))]

BitrateInputs ==
    {[comp |-> 4,
      c |-> TiledStruct(n,
                [b \in 0..(n - 1) |-> IF b = 0 THEN SingleTile(j) ELSE DenseTile],
                [b \in 0..(n - 1) |-> ZeroTile],
                [b \in 0..(n - 1) |->
                    IF b = n - 1 THEN SingleTile((j + 1) % 64) ELSE ZeroTile])] :
        n \in 1..MaxTiles, j \in Idx64}
    \cup {[comp |-> 4,
           c |-> TiledStruct(n, [b \in 0..(n - 1) |-> t],
                             [b \in 0..(n - 1) |-> t],
                             [b \in 0..(n - 1) |-> t])] :
             n \in 1..MaxTiles, t \in {ZeroTile, DenseTile}}
    \cup {[comp |-> 0, c |-> ZeroCompressed]}

NoMetric == <<>>

InitBitrate == InitPure("metrics", BitrateInputs, NoMetric)

\* double bitrate = calc_bitrate(comp)
CalcBitrate ==
    /\ pc = "metrics"
    /\ pc' = "measured"
    /\ fout' = calc_bitrate(fin.comp, fin.c)
    /\ UNCHANGED fin
    /\ UNCHANGED apivars

SpecBitrate == InitBitrate /\ [][CalcBitrate]_vars

(***************************************************************************)
(* SpecPsnr: calc_psnr on two RGB rasters A and B of 1 .. MaxPsnrDim       *)
(* pixels in one row, called as (A, B), as (B, A) and as (A, A).  The      *)
(* first pixel of a raster is a triple over the bytes 0, 1 and 255; each   *)
(* further pixel adds 7 to every byte of the one before, modulo 256.       *)
(***************************************************************************)
MaxPsnrDim == 2

PsnrBytes == {0, 1, 255}

PsnrRaster(t, w) ==
    Eager([i \in 0..(3 * w - 1) |-> (t[(i % 3) + 1] + 7 * (i \div 3)) % 256])

PsnrInputs ==
    {[width |-> w, height |-> 1, a |-> PsnrRaster(ta, w), b |-> PsnrRaster(tb, w)] :
        w \in 1..MaxPsnrDim,
        ta \in PsnrBytes \X PsnrBytes \X PsnrBytes,
        tb \in PsnrBytes \X PsnrBytes \X PsnrBytes}

InitPsnr ==
    InitPure("psnr", PsnrInputs, [ab |-> NoMetric, ba |-> NoMetric, aa |-> NoMetric])

\* calc_psnr(a, b, width, height)
CalcPsnr ==
    /\ pc = "psnr"
    /\ fout.ab = NoMetric
    /\ fout' = [fout EXCEPT !.ab = calc_psnr(fin.a, fin.b, fin.width, fin.height)]
    /\ UNCHANGED <<pc, fin>>
    /\ UNCHANGED apivars

\* calc_psnr(b, a, width, height)
CalcPsnrSwapped ==
    /\ pc = "psnr"
    /\ fout.ba = NoMetric
    /\ fout' = [fout EXCEPT !.ba = calc_psnr(fin.b, fin.a, fin.width, fin.height)]
    /\ UNCHANGED <<pc, fin>>
    /\ UNCHANGED apivars

\* calc_psnr(a, a, width, height)
CalcPsnrSelf ==
    /\ pc = "psnr"
    /\ fout.aa = NoMetric
    /\ fout' = [fout EXCEPT !.aa = calc_psnr(fin.a, fin.a, fin.width, fin.height)]
    /\ UNCHANGED <<pc, fin>>
    /\ UNCHANGED apivars

NextPsnr == CalcPsnr \/ CalcPsnrSwapped \/ CalcPsnrSelf

SpecPsnr == InitPsnr /\ [][NextPsnr]_vars

(***************************************************************************)
(* SpecUniform: RGB rasters with R = G = B = v at every pixel, compressed  *)
(* at k = 1 and measured as capture_handler does.  The one-tile rasters go *)
(* through every method; the 64 x 64 rasters (eight tiles each way)        *)
(* through the approximate method.                                         *)
(***************************************************************************)
ExampleSide == 8 * 8

UniformLevels == {0, 1, 64, 127, 128, 129, 192, 255}

UniformImage(side, v) ==
    [null |-> FALSE, width |-> side, height |-> side,
     colorspace |-> JPEG_COLORSPACE_RGB, data_null |-> FALSE,
     data |-> Eager([i \in 0..(3 * side * side - 1) |-> v])]

InitUniform ==
    /\ InitApi({UniformImage(side, v) : side \in {8, ExampleSide}, v \in UniformLevels},
               {MkParams(KUnit, m, 0) : m \in Methods}, {FALSE}, {0})
    /\ original.width = ExampleSide => prm.dct_method = JPEG_DCT_APPROX

\* double bitrate = calc_bitrate(comp), after a compression that succeeded
MeasureBitrate ==
    /\ pc = "compressed"
    /\ err = JPEG_SUCCESS
    /\ fout = <<>>
    /\ fout' = calc_bitrate(comp, comp_obj)
    /\ UNCHANGED <<pc, fin>>
    /\ UNCHANGED apivars

NextMeasure == Compress \/ MeasureBitrate \/ FreeCompressed

SpecUniform == InitUniform /\ [][NextMeasure]_vars

(***************************************************************************)
(* SpecRaw: the caller frees the raw coefficient arrays before it          *)
(* decompresses, as capture_handler does, or leaves them.  Every method,   *)
(* quantized and unquantized, on 1 x 1 and 2 x 2 rasters of both colour    *)
(* spaces.                                                                 *)
(***************************************************************************)
RawImages ==
    {MkImage(d, d, cs, FALSE, ArgPattern) : d \in {1, 2}, cs \in ColorSpaces}

InitRaw == InitApi(RawImages, AllParams, {FALSE}, {0})

NextRaw ==
    Compress \/ FreeRawCoefficients \/ Decompress \/ FreeImage \/ FreeCompressed

SpecRaw == InitRaw /\ [][NextRaw]_vars

(***************************************************************************)
(* SpecThreads: two threads, each making up to MaxCalls calls of public    *)
(* operations on arguments it owns.  fin[t] is the sequence of calls of    *)
(* thread t.  fout holds the static buffer of jpeg_version and, for each   *)
(* thread, the index of its current call (at), its position inside that    *)
(* call (inside: 0 between calls, k after k - 1 stores of the call) and    *)
(* the last value returned to it (ret).  A call of jpeg_version stores     *)
(* the characters one at a time; the other operations touch no static      *)
(* storage between their call and their return.                            *)
(***************************************************************************)
MaxCalls == 2

Threads == {1, 2}

RECURSIVE CallSeqs(_)
CallSeqs(n) ==
    IF n = 0 THEN {<<>>}
    ELSE {Append(q, op) : q \in CallSeqs(n - 1), op \in PublicOps}

Scripts == UNION {CallSeqs(n) : n \in 1..MaxCalls}

InitThreads ==
    InitPure("threads", [Threads -> Scripts],
             [version |-> version_initial,
              at      |-> [t \in Threads |-> 1],
              inside  |-> [t \in Threads |-> 0],
              ret     |-> [t \in Threads |-> "none"]])

\* The operation thread t is calling or about to call.
OpOf(t) == fin[t][fout.at[t]]

\* Thread t enters its next call.
ThreadCall ==
    /\ pc = "threads"
    /\ \E t \in Threads :
         /\ fout.at[t] <= Len(fin[t])
         /\ fout.inside[t] = 0
         /\ fout' = [fout EXCEPT !.inside[t] = 1]
    /\ UNCHANGED <<pc, fin>>
    /\ UNCHANGED apivars

\* Thread t, inside jpeg_version, stores the next character of snprintf.
VersionStore ==
    /\ pc = "threads"
    /\ \E t \in Threads :
         /\ fout.inside[t] \in 1..Len(version_chars)
         /\ OpOf(t) = "jpeg_version"
         /\ fout' = [fout EXCEPT
                        !.version[fout.inside[t] - 1] = version_chars[fout.inside[t]],
                        !.inside[t] = @ + 1]
    /\ UNCHANGED <<pc, fin>>
    /\ UNCHANGED apivars

\* Thread t returns from its call: jpeg_version with the address of the
\* static buffer, jpeg_error_string with a string literal.
ThreadReturn ==
    /\ pc = "threads"
    /\ \E t \in Threads :
         /\ fout.inside[t] >= 1
         /\ OpOf(t) = "jpeg_version" => fout.inside[t] > Len(version_chars)
         /\ fout' = [fout EXCEPT
                        !.inside[t] = 0,
                        !.at[t] = @ + 1,
                        !.ret[t] = IF OpOf(t) = "jpeg_version" THEN "&version"
                                   ELSE IF OpOf(t) = "jpeg_error_string"
                                   THEN jpeg_error_string(JPEG_SUCCESS)
                                   ELSE "done"]
    /\ UNCHANGED <<pc, fin>>
    /\ UNCHANGED apivars

NextThreads == ThreadCall \/ VersionStore \/ ThreadReturn

SpecThreads == InitThreads /\ [][NextThreads]_vars

(***************************************************************************)
(* SpecScale: scale_quant_table on both base tables for every k from 0 to  *)
(* MaxScaleK in steps of 1/2048 (every such k is a float, and k * 1024 is  *)
(* then a whole number or a whole number and a half), and for k = 4 and 8  *)
(* and the step below each.                                                *)
(***************************************************************************)
MaxScaleK == 2

ScaleInputs ==
    {[base_table |-> t, k |-> k] :
        t \in {Q50_LUMA, Q50_CHROMA},
        k \in 0..(MaxScaleK * KUnit)
              \cup {4 * KUnit - 1, 4 * KUnit, 8 * KUnit - 1, 8 * KUnit}}

InitScale == InitPure("scale", ScaleInputs, NoBlock)

\* scale_quant_table(base_table, k, output)
ScaleQuantTable ==
    /\ pc = "scale"
    /\ pc' = "scaled"
    /\ fout' = scale_quant_table(fin.base_table, fin.k)
    /\ UNCHANGED fin
    /\ UNCHANGED apivars

SpecScale == InitScale /\ [][ScaleQuantTable]_vars

(***************************************************************************)
(* The Matrix forward transform of each of the two dct_matrix.c files of   *)
(* the repository, applied to the same level-shifted tile.                 *)
(***************************************************************************)
\* A tile that is zero but for one sample.
ImpulseTile(j, v) == Eager([i \in Idx64 |-> IF i = j THEN v ELSE 0])

\* A tile of one level.
FlatTile(v) == Eager([i \in Idx64 |-> v])

MatrixInputs ==
    {ImpulseTile(j, v) : j \in Idx64, v \in {-128, 127}}
        \cup {FlatTile(v) : v \in {-128, -1, 0, 1, 127}}
        \cup {DenseTile}

InitMatrix == InitPure("matrix", MatrixInputs, NoBlock)

\* dct_matrix_2d(in, out), libimage/src/dct_matrix.c
MatrixLibrary ==
    /\ pc = "matrix"
    /\ pc' = "matrix_lib"
    /\ fout' = dct_matrix_2d_2048(fin)
    /\ UNCHANGED fin
    /\ UNCHANGED apivars

\* dct_matrix_2d(in, out), the 2^20-scale dct_matrix.c
MatrixReference ==
    /\ pc = "matrix"
    /\ pc' = "matrix_ref"
    /\ fout' = dct_matrix_2d(fin)
    /\ UNCHANGED fin
    /\ UNCHANGED apivars

NextMatrix == MatrixLibrary \/ MatrixReference

SpecMatrix == InitMatrix /\ [][NextMatrix]_vars

(***************************************************************************)
(* The approximate transform and its inverse on one level-shifted tile.    *)
(***************************************************************************)
ApproxInputs ==
    {ImpulseTile(j, v) : j \in Idx64, v \in {-128, -1, 1, 128}}
        \cup {FlatTile(v) : v \in {-128, -1, 0, 1, 128}}
        \cup {DenseTile}

InitApprox == InitPure("approx", ApproxInputs, NoBlock)

\* dct_approx_2d(in, coeffs); idct_approx_2d(coeffs, out)
ApproxRoundTrip ==
    /\ pc = "approx"
    /\ pc' = "approx_inverted"
    /\ fout' = idct_approx_2d(dct_approx_2d(fin))
    /\ UNCHANGED fin
    /\ UNCHANGED apivars

SpecApprox == InitApprox /\ [][ApproxRoundTrip]_vars

(***************************************************************************)
(* SpecInverse: one stored tile through the tile loop of jpeg_decompress,  *)
(* for quantized values over the whole int16_t range and k from 1 to 8.    *)
(***************************************************************************)
InverseValues == {-(2 ^ 15), -(2 ^ 11), -1, 1, 2 ^ 11, 2 ^ 15 - 1}

InversePositions == {0, 1, 8, 9, 57, 63}

InverseTileSet ==
    {ImpulseTile(j, v) : j \in InversePositions, v \in InverseValues}
        \cup {FlatTile(v) : v \in {-1, 0, 1}}
        \cup {DenseTile}

InverseInputs ==
    {[q |-> t, k |-> k, dct_method |-> m, base_table |-> b] :
        t \in InverseTileSet, k \in {KUnit, 8 * KUnit}, m \in Methods,
        b \in {Q50_LUMA, Q50_CHROMA}}

InitInverse == InitPure("inverse", InverseInputs, NoBlock)

\* Signed overflow is undefined: the tile the loop leaves is any tile.
UndefinedTiles == {FlatTile(g) : g \in Garbage}

\* codec.c lines 164-188 for one tile of one channel.
InverseTile ==
    /\ pc = "inverse"
    /\ pc' = "inverted"
    /\ \E table \in {scale_quant_table(fin.base_table, fin.k)} :
       \E o \in {tile_overflow(fin.dct_method, fin.q, table)} :
       \E out \in (IF o # "none" THEN UndefinedTiles
                   ELSE IF fin.dct_method = JPEG_DCT_IDENTITY THEN {fin.q}
                   ELSE {idct_func(fin.dct_method, dequantize(fin.q, table))}) :
           fout' = [overflow |-> o, out |-> out]
    /\ UNCHANGED fin
    /\ UNCHANGED apivars

SpecInverse == InitInverse /\ [][InverseTile]_vars

(***************************************************************************)
(* Properties.                                                             *)
(***************************************************************************)
\* The three quantized arrays of a compressed struct.
QuantizedArrays(c) == <<c.y_quantized.a, c.cb_quantized.a, c.cr_quantized.a>>

\* The same call as the one made, with the other of the two transforms
\* Loeffler and Matrix.
OtherTransform ==
    jpeg_compress(original,
                  [prm EXCEPT !.dct_method =
                      IF @ = JPEG_DCT_LOEFFLER THEN JPEG_DCT_MATRIX
                      ELSE JPEG_DCT_LOEFFLER],
                  FALSE, 0, ZeroCompressed, <<>>, Platform(0))

\* C1: for the same raster and the same quality factor k (1, 2 or 4),
\* jpeg_compress with the Loeffler transform and jpeg_compress with the
\* Matrix transform store identical quantized arrays Q_Y, Q_Cb, Q_Cr.
C1_FastMatrixSameQuantized ==
    (pc = "compressed" /\ err = JPEG_SUCCESS)
        => QuantizedArrays(comp_obj) = QuantizedArrays(OtherTransform.cstruct)

\* C2: quantize_fast, with the table compute_reciprocal_table builds, returns
\* the same integer as quantize for every coefficient c with |c| <= 2^20 and
\* every table value q in 1..255.
C2_ReciprocalEqualsDivision ==
    (fout.division # NoBlock /\ fout.reciprocal # NoBlock)
        => fout.reciprocal = fout.division

\* C3: with the Identity transform, for both values of skip_quantization,
\* every quantized tile jpeg_compress stores equals the tile of the colour
\* plane it was made from, sample for sample.
C3_IdentityBypassesQuantization ==
    (pc = "compressed" /\ err = JPEG_SUCCESS
        /\ prm.dct_method = JPEG_DCT_IDENTITY)
        => QuantizedArrays(comp_obj)
               = <<trace_c.y_blks, trace_c.cb_blks, trace_c.cr_blks>>

\* The norm-corrected table of the Approx transform for quality factor k.
CorrectedTable(base_table, k) ==
    apply_approx_norm_correction(scale_quant_table(base_table, k))

\* C4: with the Approx transform the tables jpeg_compress quantizes with and
\* jpeg_decompress rebuilds are the norm-corrected tables, and in compress
\* the reciprocal tables are computed from the corrected tables.
C4_ApproxTablesNormCorrected ==
    /\ (pc = "compressed" /\ err = JPEG_SUCCESS
           /\ prm.dct_method = JPEG_DCT_APPROX)
          => /\ trace_c.quant_luma
                    = CorrectedTable(Q50_LUMA, prm.quality_factor)
             /\ trace_c.quant_chroma
                    = CorrectedTable(Q50_CHROMA, prm.quality_factor)
             /\ trace_c.recip_luma
                    = compute_reciprocal_table(
                          CorrectedTable(Q50_LUMA, prm.quality_factor))
             /\ trace_c.recip_chroma
                    = compute_reciprocal_table(
                          CorrectedTable(Q50_CHROMA, prm.quality_factor))
    /\ (pc = "decompressed" /\ err_d = JPEG_SUCCESS
           /\ comp_obj.dct_method = JPEG_DCT_APPROX)
          => /\ trace_d.quant_luma
                    = CorrectedTable(Q50_LUMA, comp_obj.quality_factor)
             /\ trace_d.quant_chroma
                    = CorrectedTable(Q50_CHROMA, comp_obj.quality_factor)

\* C5: a grayscale raster of any width and height >= 1, compressed with the
\* Identity transform and skip_quantization set and then decompressed, comes
\* back as an RGB raster of the same size with R = G = B = the original gray
\* byte at every pixel, for which calc_psnr_gray returns 100.
C5_GrayIdentityRoundTrip ==
    (pc = "decompressed" /\ ~recon_null
        /\ original.colorspace = JPEG_COLORSPACE_GRAYSCALE
        /\ prm.dct_method = JPEG_DCT_IDENTITY /\ prm.skip_quantization # 0)
        => /\ err = JPEG_SUCCESS
           /\ err_d = JPEG_SUCCESS
           /\ recon_obj.width = original.width
           /\ recon_obj.height = original.height
           /\ recon_obj.colorspace = JPEG_COLORSPACE_RGB
           /\ DOMAIN recon_obj.data.a
                  = 0..(3 * original.width * original.height - 1)
           /\ \A i \in 0..(original.width * original.height - 1) :
                  \A ch \in 0..2 :
                      recon_obj.data.a[3 * i + ch] = original.data[i]
           /\ calc_psnr_gray_is_100(original, recon, recon_obj)

\* A 9 x 9 raster (four tiles, three of them padded) with a non-zero last
\* byte has made the round trip.
C5_Witness ==
    /\ pc = "decompressed"
    /\ ~recon_null
    /\ prm.dct_method = JPEG_DCT_IDENTITY
    /\ prm.skip_quantization # 0
    /\ original.width = 9
    /\ original.height = 9
    /\ original.data[80] # 0
    /\ recon_obj.data.a[3 * 80 + 2] = original.data[80]

\* ceil(n / 8), by its definition.
CeilDiv8(n) == CHOOSE m \in 0..n : 8 * m >= n /\ 8 * (m - 1) < n

\* C6: for a plane of width W >= 1 and height H >= 1 extract_blocks returns
\* ceil(W/8) * ceil(H/8) tiles in row-major tile order; sample (y, x) of the
\* tile at tile-row r and tile-column c is plane[(8r+y)*W + (8c+x)] where
\* 8r+y < H and 8c+x < W, and 0 elsewhere.
C6_ExtractBlocksTiles ==
    pc \in {"tiles", "restored"}
        => /\ fout.num_blocks = CeilDiv8(fin.width) * CeilDiv8(fin.height)
           /\ DOMAIN fout.blocks = 0..(fout.num_blocks * 64 - 1)
           /\ \A r \in 0..(CeilDiv8(fin.height) - 1) :
              \A c \in 0..(CeilDiv8(fin.width) - 1) :
              \A y \in 0..7 : \A x \in 0..7 :
                  fout.blocks[(r * CeilDiv8(fin.width) + c) * 64 + y * 8 + x]
                      = IF 8 * r + y < fin.height /\ 8 * c + x < fin.width
                        THEN fin.channel[(8 * r + y) * fin.width + (8 * c + x)]
                        ELSE 0

\* A 9 x 10 plane is cut into four tiles; the corner tile holds the plane's
\* last sample of row 8 in its first place and zero next to it.
C6_Witness ==
    /\ pc = "tiles"
    /\ fin.width = 9
    /\ fin.height = 10
    /\ fout.num_blocks = 4
    /\ fout.blocks[3 * 64] = fin.channel[8 * 9 + 8]
    /\ fout.blocks[3 * 64 + 1] = 0
    /\ fout.blocks[3 * 64 + 8] = fin.channel[9 * 9 + 8]

\* Whether element l of the tile buffer of a width x height plane is a
\* sample of the plane (and not padding).
InPlane(l, width, height) ==
    /\ 8 * ((l \div 64) \div CeilDiv8(width)) + ((l % 64) \div 8) < height
    /\ 8 * ((l \div 64) % CeilDiv8(width)) + (l % 8) < width

\* C7: for W >= 1 and H >= 1 reconstruct_channel applied to the tiles of
\* extract_blocks restores the plane exactly, stores to every index of
\* 0 .. W*H-1 and to no other index, and loads no padded tile sample.
C7_ReconstructRestoresPlane ==
    pc = "restored"
        => /\ fout.channel = fin.channel
           /\ fout.stores = 0..(fin.width * fin.height - 1)
           /\ \A l \in fout.loads : InPlane(l, fin.width, fin.height)

\* A 9 x 9 plane has been restored from its four tiles.
C7_Witness ==
    /\ pc = "restored"
    /\ fin.width = 9
    /\ fin.height = 9
    /\ fout.num_blocks = 4
    /\ fout.channel[80] = fin.channel[80]
    /\ fout.channel[80] # Untouched
    /\ Cardinality(fout.stores) = 81

\* The two errors of jpeg_compress's argument checks.
ArgumentErrors == {JPEG_ERROR_NULL_POINTER, JPEG_ERROR_INVALID_DIMENSIONS}

\* C8: jpeg_compress returns JPEG_ERROR_NULL_POINTER when the image, the
\* parameters or the out pointer is null, whatever the dimensions, and
\* JPEG_ERROR_INVALID_DIMENSIONS when none is null and width <= 0 or
\* height <= 0; on either error it allocates nothing and leaves *compressed
\* as it was.
C8_CompressArgumentChecks ==
    [][(pc = "start" /\ pc' # "start")
          => /\ pc' = "compressed"
                \/ ~(original.null \/ prm.null \/ out_null
                     \/ original.width <= 0 \/ original.height <= 0)
             /\ (original.null \/ prm.null \/ out_null)
                    => err' = JPEG_ERROR_NULL_POINTER
             /\ (~(original.null \/ prm.null \/ out_null)
                    /\ (original.width <= 0 \/ original.height <= 0))
                    => err' = JPEG_ERROR_INVALID_DIMENSIONS
             /\ (pc' = "compressed" /\ err' \in ArgumentErrors)
                    => /\ heap' = heap
                       /\ comp' = comp
                       /\ comp_obj' = comp_obj
                       /\ ~trace_c'.zero_alloc]_vars

\* A call with null parameters and a negative width has returned
\* JPEG_ERROR_NULL_POINTER, the caller's earlier handle still in place and
\* the heap still holding only that handle's block.
C8_Witness ==
    /\ pc = "compressed"
    /\ err = JPEG_ERROR_NULL_POINTER
    /\ ~original.null
    /\ original.width < 0
    /\ prm.null
    /\ comp = 1
    /\ Len(heap) = 1

\* C9: jpeg_compress of a non-null image of positive width and height whose
\* data pointer is null returns JPEG_ERROR_NULL_POINTER and does not load
\* from the pixel buffer.
C9_NullDataRejected ==
    (pc \in {"compressed", "crashed"}
        /\ ~original.null /\ ~prm.null /\ ~out_null
        /\ original.width > 0 /\ original.height > 0 /\ original.data_null)
        => /\ pc = "compressed"
           /\ err = JPEG_ERROR_NULL_POINTER
           /\ ~trace_c.read_data

\* The tile count a compressed struct's dimensions call for.
ExpectedBlocks(c) == CeilDiv8(c.width) * CeilDiv8(c.height)

\* Whether a compressed struct is one jpeg_decompress has to reject.
Malformed(c) ==
    \/ c.width <= 0
    \/ c.height <= 0
    \/ c.y_quantized.p = 0 \/ c.cb_quantized.p = 0 \/ c.cr_quantized.p = 0
    \/ c.num_blocks_y # ExpectedBlocks(c)

\* C10: jpeg_decompress rejects a compressed struct with a non-positive
\* width or height, a missing quantized array, or a num_blocks_y other than
\* ceil(W/8) * ceil(H/8): it returns JPEG_ERROR_INVALID_DIMENSIONS (or
\* JPEG_ERROR_NULL_POINTER for the missing array), and it loads no more than
\* num_blocks_y * 64 elements from a coefficient array.
C10_DecompressValidates ==
    (pc \in {"decompressed", "crashed"} /\ comp # 0 /\ ~recon_null)
        => /\ Malformed(comp_obj)
                 => /\ pc = "decompressed"
                    /\ err_d = IF comp_obj.width > 0 /\ comp_obj.height > 0
                                  /\ comp_obj.num_blocks_y = ExpectedBlocks(comp_obj)
                               THEN JPEG_ERROR_NULL_POINTER
                               ELSE JPEG_ERROR_INVALID_DIMENSIONS
           /\ trace_d.q_loads <= comp_obj.num_blocks_y * 64

\* C11: with a dct_method outside the four enumerators and every other
\* argument valid, jpeg_compress and jpeg_decompress return
\* JPEG_ERROR_INVALID_METHOD.
C11_InvalidMethodRejected ==
    /\ (pc \in {"compressed", "crashed"} /\ prm.dct_method \notin Methods)
          => /\ pc = "compressed"
             /\ err = JPEG_ERROR_INVALID_METHOD
    /\ (pc \in {"decompressed", "crashed"} /\ err_d # NotCalled
           /\ ~recon_null /\ comp_obj.dct_method \notin Methods)
          => err_d = JPEG_ERROR_INVALID_METHOD

\* C12: whichever one allocation call the platform refuses, jpeg_compress
\* and jpeg_decompress return JPEG_ERROR_ALLOCATION_FAILED and make no load
\* through the pointer that was not allocated.
C12_RefusedAllocationReported ==
    /\ (pc \in {"compressed", "crashed"} /\ refuse[1] \in 1..CompressAllocs)
          => /\ pc = "compressed"
             /\ err = JPEG_ERROR_ALLOCATION_FAILED
             /\ ~trace_c.invalid_load
    /\ (pc \in {"decompressed", "crashed"} /\ err = JPEG_SUCCESS
           /\ ~recon_null /\ refuse[2] \in 1..DecompressAllocs)
          => /\ pc = "decompressed"
             /\ err_d = JPEG_ERROR_ALLOCATION_FAILED
             /\ ~trace_d.invalid_load

\* The blocks the caller owns through the handle jpeg_compress returned.
OwnedCompressed ==
    IF err = JPEG_SUCCESS
    THEN {comp, comp_obj.y_coeffs.p, comp_obj.y_quantized.p,
          comp_obj.cb_coeffs.p, comp_obj.cb_quantized.p,
          comp_obj.cr_coeffs.p, comp_obj.cr_quantized.p}
    ELSE {}

\* The blocks the caller owns through the image jpeg_decompress returned.
OwnedImage ==
    IF err_d = JPEG_SUCCESS THEN {recon, recon_obj.data.p} ELSE {}

\* C13: when jpeg_compress or jpeg_decompress has returned, with success or
\* with an error, every block the calls allocated is either live, never
\* freed and part of the object returned with success, or has been freed
\* exactly once.
C13_AllocationsScoped ==
    pc \in {"compressed", "decompressed"}
        => /\ 0 \notin OwnedCompressed \cup OwnedImage
           /\ \A p \in 1..Len(heap) :
                  IF p \in OwnedCompressed \cup OwnedImage
                  THEN heap[p].live /\ heap[p].frees = 0
                  ELSE ~heap[p].live /\ heap[p].frees = 1

\* jpeg_decompress has returned JPEG_ERROR_ALLOCATION_FAILED because its
\* second plane was refused: the compressed struct's seven blocks are live,
\* and the six blocks the call did get are freed.
C13_Witness ==
    /\ pc = "decompressed"
    /\ refuse[2] = 7
    /\ err_d = JPEG_ERROR_ALLOCATION_FAILED
    /\ Cardinality({p \in 1..Len(heap) : heap[p].live}) = 7
    /\ Cardinality({p \in 1..Len(heap) : heap[p].frees = 1}) >= 12

\* C14: every value jpeg_compress stores in y_quantized, cb_quantized and
\* cr_quantized lies in -32768 .. 32767, and the three pack_int16 buffers
\* hold the same values as the arrays they were packed from.
C14_QuantizedFitInt16 ==
    (pc # "start" /\ err = JPEG_SUCCESS)
        => /\ \A ch \in 1..3 :
                  \A i \in DOMAIN QuantizedArrays(comp_obj)[ch] :
                      QuantizedArrays(comp_obj)[ch][i] \in (-(2 ^ 15))..(2 ^ 15 - 1)
           /\ fout # <<>> => fout = QuantizedArrays(comp_obj)

\* An all-zero grayscale tile through the unquantized Approx transform: the
\* stored and packed DC value is 64 * -128.
C14_Witness ==
    /\ pc = "compressed"
    /\ prm.dct_method = JPEG_DCT_APPROX
    /\ prm.skip_quantization = 1
    /\ comp_obj.y_quantized.a[0] = -8192
    /\ fout # <<>>
    /\ fout[1][0] = -8192

\* The rounded-division primitive: sign(n) * ((|n| + d/2) / d).
RoundedDiv(n, d) ==
    IF n >= 0 THEN (n + d \div 2) \div d ELSE -(((-n) + d \div 2) \div d)

\* The colour transform with every division by 1000 made by the primitive.
RoundedForward(t) ==
    <<RoundedDiv(299 * t[1] + 587 * t[2] + 114 * t[3], 1000) - 128,
      RoundedDiv((-169) * t[1] - 331 * t[2] + 500 * t[3], 1000),
      RoundedDiv(500 * t[1] - 419 * t[2] - 81 * t[3], 1000)>>

RoundedInverse(t) ==
    <<clamp255(t[1] + 128 + RoundedDiv(1402 * t[3], 1000)),
      clamp255(t[1] + 128 - RoundedDiv(344 * t[2] + 714 * t[3], 1000)),
      clamp255(t[1] + 128 + RoundedDiv(1772 * t[2], 1000))>>

\* C15: every division by 1000 of rgb_to_ycbcr_batch and ycbcr_to_rgb_batch
\* yields what the rounded-division primitive yields, for negative
\* numerators too.
C15_ColourDivisionsRounded ==
    \A i \in 1..2 :
        /\ (fin.dir = "forward" /\ fout.batch # NoPixels)
              => fout.batch[i] = RoundedForward(fin.px[i])
        /\ (fin.dir = "inverse" /\ fout.batch # NoPixels)
              => fout.batch[i] = RoundedInverse(fin.px[i])

\* C16: for every pixel rgb_to_ycbcr_batch stores what rgb_to_ycbcr returns
\* and ycbcr_to_rgb_batch stores what ycbcr_to_rgb returns, saturated
\* results included.
C16_BatchEqualsSingle ==
    (fout.batch # NoPixels /\ fout.single # NoPixels) => fout.batch = fout.single

\* Both inverse conversions have run on a pixel whose red saturates at 255
\* and whose blue saturates at 0.
C16_Witness ==
    /\ fin.dir = "inverse"
    /\ fin.px[1] = <<127, -300, 300>>
    /\ fout.batch # NoPixels
    /\ fout.single # NoPixels
    /\ fout.single[1][1] = 255
    /\ fout.single[1][3] = 0
    /\ fout.batch[2] = fout.single[2]

\* C17: every jpeg_decompress that returns JPEG_SUCCESS returns an image
\* whose colorspace is RGB, whose width and height are those of the
\* compressed struct, and whose buffer holds exactly width * height * 3
\* bytes, whether the source raster was RGB or grayscale.
C17_DecompressReturnsRgb ==
    (pc = "decompressed" /\ err_d = JPEG_SUCCESS)
        => /\ recon # 0
           /\ recon_obj.colorspace = JPEG_COLORSPACE_RGB
           /\ recon_obj.width = comp_obj.width
           /\ recon_obj.height = comp_obj.height
           /\ recon_obj.data.p # 0
           /\ DOMAIN recon_obj.data.a
                  = 0..(comp_obj.width * comp_obj.height * 3 - 1)

\* A 2 x 2 grayscale raster has come back as a 2 x 2 RGB image of 12 bytes.
C17_Witness ==
    /\ pc = "decompressed"
    /\ err_d = JPEG_SUCCESS
    /\ original.colorspace = JPEG_COLORSPACE_GRAYSCALE
    /\ ~original.data_null
    /\ original.width = 2
    /\ original.height = 2
    /\ recon_obj.colorspace = JPEG_COLORSPACE_RGB
    /\ Cardinality(DOMAIN recon_obj.data.a) = 12

\* What the per-tile loop stores for tile b of a channel whose tiles are
\* blks: the transformed tile, quantized unless skip_quantization is set.
LoopTile(blks, b, table) ==
    IF prm.skip_quantization # 0
    THEN dct_func(prm.dct_method, Tile(blks, b, 0))
    ELSE quantize_fast(dct_func(prm.dct_method, Tile(blks, b, 0)), table,
                       compute_reciprocal_table(table))

\* C18: the struct a successful jpeg_compress returns has the width, height,
\* quality_factor and dct_method of its inputs, num_blocks_y =
\* num_blocks_chroma = ceil(W/8) * ceil(H/8), and three quantized arrays of
\* exactly num_blocks_y * 64 elements, each element the one the per-tile
\* loop stores for its tile.
C18_CompressedShape ==
    (pc = "compressed" /\ err = JPEG_SUCCESS)
        => /\ comp # 0
           /\ comp_obj.width = original.width
           /\ comp_obj.height = original.height
           /\ comp_obj.quality_factor = prm.quality_factor
           /\ comp_obj.dct_method = prm.dct_method
           /\ comp_obj.num_blocks_y
                  = CeilDiv8(original.width) * CeilDiv8(original.height)
           /\ comp_obj.num_blocks_chroma = comp_obj.num_blocks_y
           /\ \A ch \in 1..3 :
                  /\ QuantizedOf(comp_obj, ch).p # 0
                  /\ DOMAIN QuantizedOf(comp_obj, ch).a
                         = 0..(ExpectedBlocks(original) * 64 - 1)
           /\ \A b \in 0..(ExpectedBlocks(original) - 1) :
                  /\ Tile(comp_obj.y_quantized.a, b, 0)
                         = LoopTile(trace_c.y_blks, b, trace_c.quant_luma)
                  /\ Tile(comp_obj.cb_quantized.a, b, 0)
                         = LoopTile(trace_c.cb_blks, b, trace_c.quant_chroma)
                  /\ Tile(comp_obj.cr_quantized.a, b, 0)
                         = LoopTile(trace_c.cr_blks, b, trace_c.quant_chroma)

\* A 9 x 9 raster has been compressed into four tiles of 64 elements per
\* channel, and the last tile's first element is the raster's last sample.
C18_Witness ==
    /\ pc = "compressed"
    /\ err = JPEG_SUCCESS
    /\ original.width = 9
    /\ original.height = 9
    /\ prm.skip_quantization # 0
    /\ comp_obj.num_blocks_y = 4
    /\ Cardinality(DOMAIN comp_obj.cr_quantized.a) = 256
    /\ original.data[80] # 128
    /\ comp_obj.y_quantized.a[3 * 64] = original.data[80] - 128

\* The zig-zag permutation of the specification: the natural index at
\* each zig-zag position.
ZigZagPermutation == Arr(<<
    0,1,8,16,9,2,3,10, 17,24,32,25,18,11,4,5, 12,19,26,33,40,48,41,34,
    27,20,13,6,7,14,21,28, 35,42,49,56,57,50,43,36, 29,22,15,23,30,37,44,51,
    58,59,52,45,38,31,39,46, 53,60,61,54,47,55,62,63 >>)

\* (last_nonzero + 1) * 8 for a tile, 0 for an all-zero tile: last_nonzero
\* is the highest zig-zag position holding a non-zero coefficient.
TileBits(tile) ==
    IF \A i \in Idx64 : tile[i] = 0 THEN 0
    ELSE 8 * (1 + CHOOSE i \in Idx64 :
                     /\ tile[ZigZagPermutation[i]] # 0
                     /\ \A k \in (i + 1)..63 : tile[ZigZagPermutation[k]] = 0)

RECURSIVE TilesBits(_, _)
TilesBits(channel, n) ==
    IF n = 0 THEN 0
    ELSE TilesBits(channel, n - 1) + TileBits(Tile(channel, n - 1, 0))

\* C19: calc_bitrate returns the sum over the tiles of the three channels
\* of (last_nonzero + 1) * 8, divided by total_tiles * 64, and the result
\* lies between 0 and 8.
C19_BitrateProxy ==
    pc = "measured"
        => /\ fin.comp # 0
                 => fout.num * (3 * fin.c.num_blocks_y * 64)
                        = fout.den * (TilesBits(fin.c.y_quantized.a, fin.c.num_blocks_y)
                                      + TilesBits(fin.c.cb_quantized.a, fin.c.num_blocks_y)
                                      + TilesBits(fin.c.cr_quantized.a, fin.c.num_blocks_y))
           /\ fout.den > 0
           /\ 0 <= fout.num
           /\ fout.num <= 8 * fout.den

\* Two tiles per channel: luma with its only non-zero coefficient at
\* natural index 8 (zig-zag position 2) and a dense tile, Cb empty, Cr with
\* natural index 9 (zig-zag position 4): (24 + 512 + 40) bits over 384
\* coefficients.
C19_Witness ==
    /\ pc = "measured"
    /\ fin.c.num_blocks_y = 2
    /\ fin.c.y_quantized.a[8] # 0
    /\ fin.c.y_quantized.a[0] = 0
    /\ fin.c.cr_quantized.a[64 + 9] # 0
    /\ fout.num = 24 + 512 + 40
    /\ fout.den = 384

\* C20: calc_psnr(A, B) and calc_psnr(B, A) return the same value, which is
\* not negative; calc_psnr(A, A) returns the sentinel 100; the sum of
\* squared differences is at most 255^2 * N; and the sentinel is returned
\* exactly when the sum is 0.
C20_PsnrSymmetric ==
    /\ (fout.ab # NoMetric /\ fout.ba # NoMetric) => fout.ab = fout.ba
    /\ fout.aa # NoMetric => fout.aa.kind = "sentinel" /\ fout.aa.sum = 0
    /\ \A r \in {fout.ab, fout.ba, fout.aa} \ {NoMetric} :
           /\ r.kind \in {"sentinel", "log"}
           /\ r.total = 3 * fin.width * fin.height
           /\ 0 <= r.sum
           /\ r.sum <= 255 * 255 * r.total
           /\ r.kind = "sentinel" <=> r.sum = 0

\* Two different rasters of two pixels have been compared in both orders
\* and the first one with itself.
C20_Witness ==
    /\ fin.width = 2
    /\ fin.a[0] = 255
    /\ fin.b[0] = 0
    /\ fout.ab # NoMetric
    /\ fout.ba # NoMetric
    /\ fout.aa # NoMetric
    /\ fout.ab.kind = "log"
    /\ fout.ab.sum >= 255 * 255
    /\ fout.aa.kind = "sentinel"

\* The 64 x 64 raster with R = G = B = 128 has been compressed by the
\* approximate method at k = 1 and its bitrate measured.
UniformGrayMeasured ==
    /\ fout # <<>>
    /\ original.width = ExampleSide
    /\ original.data[0] = 128
    /\ prm.dct_method = JPEG_DCT_APPROX

\* C21 as stated: the 64 x 64 raster with R = G = B = 128 compressed with
\* Approx at k = 1 has 64 tiles, in every luminance tile exactly the DC
\* coefficient is non-zero after quantization, and the bitrate proxy is
\* about 0.125 bpp (between 0.12 and 0.13).
C21_UniformGrayDcOnly ==
    UniformGrayMeasured
        => /\ comp_obj.num_blocks_y = 64
           /\ \A b \in 0..63 : \A i \in Idx64 :
                  (comp_obj.y_quantized.a[b * 64 + i] # 0) <=> (i = 0)
           /\ 12 * fout.den <= 100 * fout.num
           /\ 100 * fout.num <= 13 * fout.den

\* C21 as amended: that raster has 64 tiles per channel, every quantized
\* coefficient of every tile of every channel is zero (the DC included),
\* and the bitrate proxy is 0 bpp, the quotient of 0 bits by 192 * 64.
C21_UniformGrayAllZero ==
    UniformGrayMeasured
        => /\ comp_obj.num_blocks_y = 64
           /\ comp_obj.num_blocks_chroma = 64
           /\ \A ch \in 1..3 :
                  /\ DOMAIN QuantizedArrays(comp_obj)[ch] = 0..(64 * 64 - 1)
                  /\ \A i \in 0..(64 * 64 - 1) : QuantizedArrays(comp_obj)[ch][i] = 0
           /\ fout.num = 0
           /\ fout.den = 192 * 64

C21_Witness ==
    /\ UniformGrayMeasured
    /\ pc = "compressed"
    /\ err = JPEG_SUCCESS
    /\ comp_obj.width = 64
    /\ comp_obj.height = 64
    /\ fout.den = 192 * 64

\* jpeg_decompress of the struct as jpeg_compress returned it, the raw
\* arrays in place: <<return value, image>>.
DecompressUntouched ==
    Only({ Only({<<d.ret, d.trap, d.istruct.width, d.istruct.height,
                   d.istruct.colorspace, d.istruct.data.a>> :
                   d \in {jpeg_decompress(r.cptr, r.cstruct, FALSE, 0, ZeroImage,
                                          r.heap, Platform(0))}}) :
           r \in {jpeg_compress(original, prm, FALSE, 0, ZeroCompressed, <<>>,
                                Platform(0))} })

\* C22: once the caller has freed y_coeffs, cb_coeffs and cr_coeffs and set
\* them to NULL, jpeg_decompress makes no invalid load and returns what it
\* returns for the untouched struct, the same image byte for byte; and
\* after jpeg_free_compressed every block ever allocated has been freed
\* exactly once.
C22_RawCoefficientsNotNeeded ==
    edited = "raw_freed"
        => /\ pc # "crashed"
           /\ (pc = "decompressed" /\ ~recon_null)
                  => /\ ~trace_d.invalid_load
                     /\ DecompressUntouched
                            = <<err_d, FALSE, recon_obj.width, recon_obj.height,
                                recon_obj.colorspace, recon_obj.data.a>>
           /\ pc = "done"
                  => \A i \in DOMAIN heap : ~heap[i].live /\ heap[i].frees = 1

\* A 2 x 2 RGB raster compressed by the matrix method with quantization, its
\* raw arrays freed, decompressed with success, and everything freed: the
\* 7 blocks of jpeg_compress, the 6 it freed itself, and the 8 of
\* jpeg_decompress.
C22_Witness ==
    /\ edited = "raw_freed"
    /\ pc = "done"
    /\ original.width = 2
    /\ original.height = 2
    /\ original.colorspace = JPEG_COLORSPACE_RGB
    /\ prm.dct_method = JPEG_DCT_MATRIX
    /\ prm.skip_quantization = 0
    /\ err_d = JPEG_SUCCESS
    /\ comp_obj.y_coeffs = NoBuf
    /\ comp_obj.y_quantized # NoBuf
    /\ DOMAIN recon_obj.data.a = 0..11
    /\ Len(heap) = 7 + 6 + 8

\* Threads t and u are both inside a call, and the call of t stores to a
\* static object that the call of u stores to or loads from.
StaticConflict(t, u) ==
    /\ t # u
    /\ fout.inside[t] >= 1
    /\ fout.inside[u] >= 1
    /\ StaticWrites(OpOf(t)) \cap (StaticWrites(OpOf(u)) \cup StaticReads(OpOf(u))) # {}

\* C23: no public operation stores to global or static storage, so at no
\* point of any interleaving of two threads, each calling public operations
\* on its own arguments, are both inside calls of which one stores to a
\* static object that the other stores to or loads from.
C23_NoStaticConflict ==
    \A t \in Threads : \A u \in Threads : ~StaticConflict(t, u)

\* The integers nearest to k * 1024 for k >= 0 in units of 1 / KUnit: one
\* integer, or the two neighbours when k * 1024 lies half way between them
\* and the rounding of ties is left open.
NearestToK1024(k) ==
    {n \in {c_div(k * 1024, KUnit), c_div(k * 1024, KUnit) + 1} :
        /\ 2 * n * KUnit - 2 * k * 1024 <= KUnit
        /\ 2 * k * 1024 - 2 * n * KUnit <= KUnit}

\* The only reading of a tie that differs from truncation: upwards.
RoundK1024(k) == CHOOSE n \in NearestToK1024(k) : \A m \in NearestToK1024(k) : m <= n

RoundedScale(base_table, k_fixed) ==
    [i \in Idx64 |->
        IF (base_table[i] * k_fixed) \div 1024 < 1 THEN 1
        ELSE (base_table[i] * k_fixed) \div 1024]

\* C24: scale_quant_table's output is max(1, (b * k_fixed) >> 10) at every
\* entry with k_fixed the integer nearest to k * 1024 (where two integers
\* are equally near, either is accepted when it is the even one, as under
\* rounding to even, or the upper one, as under rounding away from zero),
\* and every output entry is at least 1.
C24_ScaleRoundsK ==
    pc = "scaled"
        => /\ \/ fout = RoundedScale(fin.base_table, RoundK1024(fin.k))
              \/ \E n \in NearestToK1024(fin.k) :
                    n % 2 = 0 /\ fout = RoundedScale(fin.base_table, n)
           /\ \A i \in Idx64 : fout[i] >= 1

\* Every entry of a scaled table is at least 1.
ScaledEntriesPositive ==
    pc = "scaled" => \A i \in Idx64 : fout[i] >= 1

\* The raw arrays of a compressed struct, by channel.
CoefficientArrays(c) == <<c.y_coeffs.a, c.cb_coeffs.a, c.cr_coeffs.a>>

\* C25: with skip_quantization false and a transform other than Identity,
\* every quantized coefficient stored by jpeg_compress is
\* sign(c) * ((|c| + q/2) / q) for the raw coefficient c stored at the same
\* index and the entry q of the scaled table at that position of the tile
\* (the luma table for Y, the chroma table for Cb and Cr).
C25_StoredQuantizedRounded ==
    (/\ pc = "compressed"
     /\ err = JPEG_SUCCESS
     /\ prm.skip_quantization = 0
     /\ prm.dct_method # JPEG_DCT_IDENTITY)
        => \A ch \in 1..3 :
               \A i \in DOMAIN QuantizedArrays(comp_obj)[ch] :
                   QuantizedArrays(comp_obj)[ch][i]
                       = RoundedDiv(CoefficientArrays(comp_obj)[ch][i],
                                    scale_quant_table(
                                        IF ch = 1 THEN Q50_LUMA ELSE Q50_CHROMA,
                                        prm.quality_factor)[i % 64])

\* C26: the Matrix transform of the library is the 2^20-scale variant: the
\* dct_matrix.c under libimage/src has the cosine table scaled by 2^20,
\* NORM[0] = 370728, NORM[k>0] = 524288 and the divisor 2^40, so that its
\* dct_matrix_2d gives every tile the coefficients of the 2^20-scale
\* transform; no 2048-scale transform (NORM 724/1024) is part of the codec.
C26_MatrixScale20 ==
    /\ C_2048 = C
    /\ NORM_2048 = NORM
    /\ SCALE_SQ_2048 = WMul(W(2 ^ 20), W(2 ^ 20))
    /\ pc = "matrix_lib" => fout = dct_matrix_2d(fin)

\* C27: the approximate inverse exactly inverts the approximate forward
\* transform: every tile with samples in [-128, 128], negative samples
\* included, comes back unchanged from idct_approx_2d(dct_approx_2d(x)).
C27_ApproxInverts ==
    pc = "approx_inverted" => fout = fin

\* The tile b of channel ch that the loop of jpeg_decompress hands to
\* idct_func: dequantize of the stored quantized tile with the table the
\* call built for that channel.
IdctInput(c, tr, ch, b) ==
    dequantize(Tile(QuantizedOf(c, ch).a, b, 0),
               IF ch = 1 THEN tr.quant_luma ELSE tr.quant_chroma)

\* C28: for an image compressed with skip_quantization = true and a
\* transform other than Identity, jpeg_decompress hands the inverse
\* transform exactly the coefficients the forward transform produced, with
\* no multiplication by a quantization table.
C28_SkipFeedsForwardCoefficients ==
    (/\ pc = "decompressed"
     /\ err = JPEG_SUCCESS
     /\ err_d = JPEG_SUCCESS
     /\ edited = "none"
     /\ prm.skip_quantization = 1
     /\ prm.dct_method # JPEG_DCT_IDENTITY)
        => \A ch \in 1..3 : \A b \in 0..(comp_obj.num_blocks_y - 1) :
               IdctInput(comp_obj, trace_d, ch, b)
                   = Tile(CoeffsOf(comp_obj, ch).a, b, 0)

\* C29: after jpeg_compress or jpeg_decompress has returned an error, the
\* caller's output pointer is NULL (its value before the call) or points to
\* live memory, never to memory the call has freed; and the caller's
\* jpeg_free_compressed and jpeg_free_image after a failed call free no
\* block twice.
C29_NoDanglingOutput ==
    /\ (pc = "compressed" /\ err # JPEG_SUCCESS)
           => (comp = 0 \/ heap[comp].live)
    /\ (pc = "decompressed" /\ err_d # JPEG_SUCCESS)
           => (recon = 0 \/ heap[recon].live)
    /\ \A p \in DOMAIN heap : heap[p].frees <= 1

\* C30: for every stored tile whose quantized values lie in the int16_t
\* range and every k from 1 to 8, no value that jpeg_decompress computes
\* exceeds the C type that holds it: the int product of dequantize, the
\* int32_t prescaled sums of the Approx inverse, the int64_t sums and
\* products of the Fast and Matrix inverses.
C30_DecompressNoOverflow ==
    pc = "inverted" => fout.overflow = "none"

=============================================================================
